---- MODULE Spec2Model ----
(***************************************************************************)
(* A model of the stock_cli ingestion pipeline (src/src/scrape.py):        *)
(* chunked fetching of four data categories, the in-memory combiner, and   *)
(* the read-merge-write JSON sink.                                         *)
(*                                                                         *)
(* Python dicts are functions whose DOMAIN is the key set; a Python list   *)
(* is a sequence.  Every function of scrape.py is an operator computed the *)
(* way the code computes it, and every call of one is an action.           *)
(***************************************************************************)
EXTENDS Integers, Sequences, FiniteSets

\* ------------------------------------------------------------------ bounds

\* Longest symbol list handed to a fetch function or to chunk_tickers.
MaxLen == 4
\* Largest chunk size handed to chunk_tickers.
MaxChunk == 4
\* Largest analyst count in a recommendation row.
MaxCount == 2
\* Number of runs of main (each run stamps its records with its run number).
MaxRuns == 2
\* Most faults (raising entries, raising analysis requests) in one fetch of main.
MaxFaults == 1
\* Most (symbol, category) slots in one batch handed directly to save_data.
MaxSlots == 1
\* Most (symbol, category) slots in the document such a call finds stored.
MaxStored == 2
\* Most rows a symbol has in a recommendation table handed to
\* process_recommendation_trend.
MaxTrendRows == 3
\* Number of calls of combine_data_in_memory on the same four mappings.
MaxCombines == 2

\* The calls of get_or_create_ticker_id, of store_analysis_data and of
\* fetch_and_store_live_for_ticker on one database.
MaxTickerCalls == 4

MaxAnalysisStores == 2

MaxRefreshes == 3

\* ----------------------------------------------------------- the vocabulary

\* The symbols of the model, in the order a list first uses them.
SymbolOrder == <<"AAPL", "MSFT", "GOOGL", "TSLA">>

Symbols == {SymbolOrder[i] : i \in DOMAIN SymbolOrder}

Categories == {"live", "daily", "fundamentals", "analysis"}

\* scrape.py line 25
ticker_list == <<"AAPL", "MSFT", "GOOGL">>

\* The chunk size every fetch function passes to chunk_tickers.
FetchChunkSize == 3

Range(s) == {s[i] : i \in DOMAIN s}

\* No function of scrape.py looks inside a symbol, so one list stands for every
\* list with the same pattern of repetitions: the one whose symbols first
\* appear in SymbolOrder.
FirstUseInOrder(tickers) ==
  \A i \in DOMAIN tickers : \A j \in DOMAIN SymbolOrder :
    (tickers[i] = SymbolOrder[j] /\ j > 1)
      => \E k \in 1..(i - 1) : tickers[k] = SymbolOrder[j - 1]

\* The symbol lists handed to chunk_tickers and to the fetch functions:
\* duplicates allowed, the empty list included.
TickerLists ==
  {t \in UNION {[1..n -> Symbols] : n \in 0..MaxLen} : FirstUseInOrder(t)}

Min(a, b) == IF a <= b THEN a ELSE b

\* ------------------------------------------------------------ chunk_tickers

\* tickers[i:i + chunk_size] for a 0-based i: a slice stops at the list's end.
Slice(tickers, i, chunk_size) ==
  SubSeq(tickers, i + 1, Min(i + chunk_size, Len(tickers)))

\* A faulty chunk_tickers, for contrast: the index advances one too far.
RECURSIVE ChunksFromSkipping(_, _, _)
ChunksFromSkipping(tickers, i, chunk_size) ==
  IF i >= Len(tickers) THEN <<>>
  ELSE <<Slice(tickers, i, chunk_size)>>
       \o ChunksFromSkipping(tickers, i + chunk_size + 1, chunk_size)

\* for i in range(0, len(tickers), chunk_size): yield tickers[i:i + chunk_size]
RECURSIVE ChunksFrom(_, _, _)
ChunksFrom(tickers, i, chunk_size) ==
  IF i >= Len(tickers) THEN <<>>
  ELSE <<Slice(tickers, i, chunk_size)>>
       \o ChunksFrom(tickers, i + chunk_size, chunk_size)

\* A faulty chunk_tickers, for contrast: the loop's body runs before its
\* test, so an empty list yields one empty group.
ChunkTickersAtLeastOnce(tickers, chunk_size) ==
  IF tickers = <<>> THEN <<(<<>>)>> ELSE ChunksFrom(tickers, 0, chunk_size)

\* The groups chunk_tickers yields, in yield order.
chunk_tickers(tickers, chunk_size) == ChunksFrom(tickers, 0, chunk_size)

\* ------------------------------------------------- interpret_recommendation

\* The keys of label_map and of mapping, in the order the dict literals give them.
RecKeys == <<"strongBuy", "buy", "hold", "sell", "strongSell">>

\* A faulty label_map, for contrast: every key is its own label.
RawKeyLabels == [k \in Range(RecKeys) |-> k]

\* label_map (scrape.py lines 222-228)
label_map ==
  [k \in Range(RecKeys) |->
     CASE k = "strongBuy" -> "Strong Buy"
       [] k = "buy" -> "Buy"
       [] k = "hold" -> "Hold"
       [] k = "sell" -> "Sell"
       [] k = "strongSell" -> "Strong Sell"]

\* A recommendation row: a dict of counts (any subset of the count keys may be
\* missing; the period is carried beside them), or a value that is no dict.
CountDicts == UNION {[K -> 0..MaxCount] : K \in SUBSET Range(RecKeys)}

NotADict == [isdict |-> FALSE]

DictRow(counts) == [isdict |-> TRUE, counts |-> counts]

CountRows == {DictRow(c) : c \in CountDicts} \cup {NotADict}

\* counts.get(key, 0)
CountOf(row, key) ==
  IF key \in DOMAIN row.counts THEN row.counts[key] ELSE 0

\* mapping (scrape.py lines 229-240): every key, a missing one as 0.
CountMapping(row) == [k \in Range(RecKeys) |-> CountOf(row, k)]

\* A faulty max, for contrast: a later key takes over on an equal count.
RECURSIVE MaxKeyFromLastWins(_, _, _)
MaxKeyFromLastWins(mapping, best, i) ==
  IF i > Len(RecKeys) THEN best
  ELSE MaxKeyFromLastWins(mapping,
         IF mapping[RecKeys[i]] >= mapping[best] THEN RecKeys[i] ELSE best, i + 1)

\* max(mapping, key=mapping.get): a scan in the dict's order that replaces the
\* best key only by a key with a strictly greater count.
RECURSIVE MaxKeyFrom(_, _, _)
MaxKeyFrom(mapping, best, i) ==
  IF i > Len(RecKeys) THEN best
  ELSE MaxKeyFrom(mapping,
         IF mapping[RecKeys[i]] > mapping[best] THEN RecKeys[i] ELSE best, i + 1)

\* A faulty interpret_recommendation, for contrast: a row without a single
\* vote is reported as "No Data".
InterpretRecommendationNoVotes(row) ==
  IF ~row.isdict THEN "Unknown"
  ELSE IF \A k \in Range(RecKeys) : CountOf(row, k) = 0 THEN "No Data"
  ELSE label_map[MaxKeyFrom(CountMapping(row), RecKeys[1], 2)]

interpret_recommendation(row) ==
  IF ~row.isdict THEN "Unknown"
  ELSE LET best_key == MaxKeyFrom(CountMapping(row), RecKeys[1], 2)
       IN  IF best_key \in DOMAIN label_map THEN label_map[best_key] ELSE "Unknown"

\* ------------------------------------------------------------ upstream data

\* A raw upstream value: a number, a text, or None.
NoneValue == [type |-> "none"]

Num(n) == [type |-> "num", v |-> n]

Text(t) == [type |-> "str", v |-> t]

\* A raw upstream entry of one symbol: a dict of raw values, or (isdict FALSE)
\* something that is no dict, such as the provider's error text for the symbol.
Dict(items) == [isdict |-> TRUE, items |-> items]

EmptyDict == Dict(<<>>)

ErrorText == [isdict |-> FALSE]

\* What one symbol's entry in a response can be: "data" a dict with the fields
\* the code reads, "missing" no entry for the symbol, "bad" an entry that is no dict.
RawKinds == {"data", "missing", "bad"}

SamplePrice ==
  Dict([regularMarketPrice |-> Num(190), regularMarketChange |-> Num(2),
        regularMarketChangePercent |-> Num(1)])

SampleSummaryDetail ==
  Dict([open |-> Num(188), previousClose |-> Num(187), dayHigh |-> Num(191),
        dayLow |-> Num(186), volume |-> Num(5000), marketCap |-> Num(9000),
        trailingPE |-> Num(30), forwardPE |-> Num(28)])

SampleAssetProfile ==
  Dict([sector |-> Text("Technology"), industry |-> Text("Consumer Electronics"),
        fullTimeEmployees |-> Num(1000), country |-> Text("United States"),
        website |-> Text("https://example.com"),
        longBusinessSummary |-> Text("Designs devices.")])

\* The symbol-keyed mapping an accessor returns for a chunk, entry by entry.
ResponseDict(data, sample) ==
  LET present == {t \in DOMAIN data : data[t] # "missing"}
  IN  [t \in present |-> IF data[t] = "data" THEN sample ELSE ErrorText]

\* The responses an accessor (price, summary_detail, asset_profile) can give for
\* one chunk: it raises, or it returns a mapping.
GroupResponses(chunk) ==
  {[raises |-> FALSE, data |-> d] : d \in [Range(chunk) -> RawKinds]}
    \cup {[raises |-> TRUE, data |-> [t \in Range(chunk) |-> "missing"]]}

\* One response per group, in request order: choices[g] are those of group g.
ResponsesFor(choices) ==
  {r \in [DOMAIN choices -> UNION {choices[g] : g \in DOMAIN choices}] :
     \A g \in DOMAIN choices : r[g] \in choices[g]}

\* The responses a live, daily or fundamentals fetch can meet over its groups.
SimpleResponses(groups) ==
  ResponsesFor([g \in DOMAIN groups |-> GroupResponses(groups[g])])

\* ------------------------------------------------- data cleaning / defaults

\* d.get(key, default), for a d that is a dict (see Raises).
safe_get(d, key, default) ==
  IF key \in DOMAIN d.items THEN d.items[key] ELSE default

\* float(value), or default when float raises TypeError or ValueError (None,
\* or a text: the texts of the model are not numerals).
clean_numeric(value, default) ==
  IF value.type = "num" THEN value.v ELSE default

\* The stripped text of a non-blank string, else default.
clean_text(value, default) ==
  IF value.type = "str" /\ value.v # "" THEN value.v ELSE default

\* A dict lookup on a value that is no dict raises AttributeError.
Raises(entry) == ~entry.isdict

\* results[ticker] = record
Put(results, ticker, record) ==
  [t \in DOMAIN results \cup {ticker} |-> IF t = ticker THEN record ELSE results[t]]

\* price_data.get(ticker, {})
EntryGet(response, ticker) ==
  IF ticker \in DOMAIN response THEN response[ticker] ELSE EmptyDict

\* ------------------------------------------------------------ fetch records

\* scrape.py lines 107-112
LiveRecord(market_data, ts) ==
  [price |-> clean_numeric(safe_get(market_data, "regularMarketPrice", NoneValue), 0),
   change |-> clean_numeric(safe_get(market_data, "regularMarketChange", NoneValue), 0),
   percent_change |->
     clean_numeric(safe_get(market_data, "regularMarketChangePercent", NoneValue), 0),
   timestamp |-> ts]

\* scrape.py lines 133-143
DailyRecord(summary_detail, ts) ==
  [open |-> clean_numeric(safe_get(summary_detail, "open", NoneValue), 0),
   previous_close |-> clean_numeric(safe_get(summary_detail, "previousClose", NoneValue), 0),
   day_high |-> clean_numeric(safe_get(summary_detail, "dayHigh", NoneValue), 0),
   day_low |-> clean_numeric(safe_get(summary_detail, "dayLow", NoneValue), 0),
   volume |-> clean_numeric(safe_get(summary_detail, "volume", NoneValue), 0),
   market_cap |-> clean_numeric(safe_get(summary_detail, "marketCap", NoneValue), 0),
   trailing_pe |-> clean_numeric(safe_get(summary_detail, "trailingPE", NoneValue), 0),
   forward_pe |-> clean_numeric(safe_get(summary_detail, "forwardPE", NoneValue), 0),
   timestamp |-> ts]

\* scrape.py lines 165-173
FundamentalRecord(info, ts) ==
  [sector |-> clean_text(safe_get(info, "sector", NoneValue), "None"),
   industry |-> clean_text(safe_get(info, "industry", NoneValue), "None"),
   full_time_employees |->
     clean_numeric(safe_get(info, "fullTimeEmployees", NoneValue), 0),
   country |-> clean_text(safe_get(info, "country", NoneValue), "None"),
   website |-> clean_text(safe_get(info, "website", NoneValue), "None"),
   description |-> clean_text(safe_get(info, "longBusinessSummary", NoneValue), "None"),
   timestamp |-> ts]

\* --------------------------------------------- fetch functions (chunked)

SimpleCategories == {"live", "daily", "fundamentals"}

\* The accessor's sample entry and the record built from an entry, by category.
SampleFor(category) ==
  CASE category = "live" -> SamplePrice
    [] category = "daily" -> SampleSummaryDetail
    [] category = "fundamentals" -> SampleAssetProfile

RecordFor(category, entry, ts) ==
  CASE category = "live" -> LiveRecord(entry, ts)
    [] category = "daily" -> DailyRecord(entry, ts)
    [] category = "fundamentals" -> FundamentalRecord(entry, ts)

\* A faulty per-ticker loop, for contrast: the try encloses the loop, so the
\* first raising entry ends the chunk.
RECURSIVE ChunkLoopAborting(_, _, _, _, _, _)
ChunkLoopAborting(category, chunk, i, response, results, ts) ==
  IF i > Len(chunk) THEN results
  ELSE LET entry == EntryGet(response, chunk[i])
       IN  IF Raises(entry) THEN results
           ELSE ChunkLoopAborting(category, chunk, i + 1, response,
                                  Put(results, chunk[i], RecordFor(category, entry, ts)), ts)

\* for ticker in chunk: try: results[ticker] = {...} except Exception: log
RECURSIVE ChunkLoop(_, _, _, _, _, _)
ChunkLoop(category, chunk, i, response, results, ts) ==
  IF i > Len(chunk) THEN results
  ELSE LET entry == EntryGet(response, chunk[i])
       IN  ChunkLoop(category, chunk, i + 1, response,
                     IF Raises(entry) THEN results
                     ELSE Put(results, chunk[i], RecordFor(category, entry, ts)),
                     ts)

\* A call that returned its results after `requests` upstream requests, and a
\* call that an exception left (it returns nothing).
Returned(results, requests) ==
  [raised |-> FALSE, results |-> results, requests |-> requests]

Propagated(requests) ==
  [raised |-> TRUE, results |-> <<>>, requests |-> requests]

\* A faulty group loop, for contrast: the accessor is read once for each
\* ticker of the chunk.
RECURSIVE GroupLoopPerTicker(_, _, _, _, _, _, _)
GroupLoopPerTicker(category, groups, g, resp, results, requests, ts) ==
  IF g > Len(groups) THEN Returned(results, requests)
  ELSE IF resp[g].raises THEN Propagated(requests + 1)
  ELSE GroupLoopPerTicker(category, groups, g + 1, resp,
                          ChunkLoop(category, groups[g], 1,
                                    ResponseDict(resp[g].data, SampleFor(category)),
                                    results, ts),
                          requests + Len(groups[g]), ts)

\* for chunk in chunk_tickers(tickers, chunk_size=3): the accessor is read
\* outside any try, so its exception leaves the function.
RECURSIVE GroupLoop(_, _, _, _, _, _, _)
GroupLoop(category, groups, g, resp, results, requests, ts) ==
  IF g > Len(groups) THEN Returned(results, requests)
  ELSE IF resp[g].raises THEN Propagated(requests + 1)
  ELSE GroupLoop(category, groups, g + 1, resp,
                 ChunkLoop(category, groups[g], 1,
                           ResponseDict(resp[g].data, SampleFor(category)), results, ts),
                 requests + 1, ts)

fetch_live_data(tickers, resp, ts) ==
  GroupLoop("live", chunk_tickers(tickers, FetchChunkSize), 1, resp, <<>>, 0, ts)

fetch_daily_data(tickers, resp, ts) ==
  GroupLoop("daily", chunk_tickers(tickers, FetchChunkSize), 1, resp, <<>>, 0, ts)

fetch_fundamental_data(tickers, resp, ts) ==
  GroupLoop("fundamentals", chunk_tickers(tickers, FetchChunkSize), 1, resp, <<>>, 0, ts)

\* ------------------------------------------------------ fetch_analysis_data

\* A row of the recommendation table as to_dict(orient='records') gives it.
TrendRow(period, counts) == [isdict |-> TRUE, period |-> period, counts |-> counts]

Counts(sb, b, h, s, ss) ==
  [strongBuy |-> sb, buy |-> b, hold |-> h, sell |-> s, strongSell |-> ss]

SampleRows ==
  <<TrendRow("-1m", Counts(2, 1, 0, 0, 0)), TrendRow("0m", Counts(1, 2, 2, 0, 0))>>

\* An earnings-trend entry: a dict whose 'trend' is a list of period entries.
SampleEarnings ==
  [isdict |-> TRUE,
   items |-> [trend |-> <<[period |-> "0q", growth |-> Num(3)],
                          [period |-> "+1q", growth |-> Num(4)]>>]]

SampleIndex == Dict([peRatio |-> Num(20), pegRatio |-> Num(2)])

\* What the three analysis responses hold for one symbol: "data" rows and both
\* entries, "bad" rows and an earnings entry and, as the index_trend entry, the
\* provider's error text.
AnalysisKinds == {"data", "bad"}

\* The three accessors of a chunk: each raises or returns, independently.
AnalysisGroupResponses(chunk) ==
  {[rec_raises |-> a, earn_raises |-> b, idx_raises |-> c, data |-> d] :
     a \in BOOLEAN, b \in BOOLEAN, c \in BOOLEAN, d \in [Range(chunk) -> AnalysisKinds]}

\* The recommendation table: symbol (index level 0) -> its rows, in row order.
RecTable(data) ==
  [t \in {x \in DOMAIN data : data[x] # "missing"} |-> SampleRows]

EarningsDict(data) ==
  [t \in {x \in DOMAIN data : data[x] # "missing"} |-> SampleEarnings]

IndexDict(data) ==
  [t \in {x \in DOMAIN data : data[x] # "missing"} |->
     IF data[t] = "bad" THEN ErrorText ELSE SampleIndex]

\* pd.DataFrame()
EmptyFrame == <<>>

\* A faulty scan, for contrast: the last matching element and not the first.
RECURSIVE LastWithPeriod(_, _, _)
LastWithPeriod(list, period, i) ==
  IF i > Len(list) THEN 0
  ELSE LET later == LastWithPeriod(list, period, i + 1)
       IN  IF later # 0 THEN later ELSE IF list[i].period = period THEN i ELSE 0

\* next((x for x in rec_list if x.get('period') == '0m'), None), as an index (0: None)
RECURSIVE FirstWithPeriod(_, _, _)
FirstWithPeriod(list, period, i) ==
  IF i > Len(list) THEN 0
  ELSE IF list[i].period = period THEN i
  ELSE FirstWithPeriod(list, period, i + 1)

\* A faulty process_recommendation_trend, for contrast: no early return, so
\* a symbol without rows is interpreted from the empty fallback row.
ProcessTrendWithoutEarlyReturn(df, ticker_sym) ==
  LET rec_list == IF ticker_sym \in DOMAIN df THEN df[ticker_sym] ELSE <<>>
      at == FirstWithPeriod(rec_list, "0m", 1)
      row_0m == IF at # 0 THEN rec_list[at]
                ELSE IF Len(rec_list) > 0 THEN rec_list[1]
                ELSE [isdict |-> TRUE, counts |-> <<>>]
  IN  [recommendation_trend |-> rec_list,
       computed_recommendation |-> interpret_recommendation(row_0m)]

process_recommendation_trend(df, ticker_sym) ==
  IF DOMAIN df = {} \/ ticker_sym \notin DOMAIN df
  THEN [recommendation_trend |-> <<>>, computed_recommendation |-> "No Data"]
  ELSE LET rec_list == df[ticker_sym]
           at == FirstWithPeriod(rec_list, "0m", 1)
           row_0m == IF at # 0 THEN rec_list[at]
                     ELSE IF Len(rec_list) > 0 THEN rec_list[1]
                     ELSE [isdict |-> TRUE, counts |-> <<>>]
       IN  [recommendation_trend |-> rec_list,
            computed_recommendation |-> interpret_recommendation(row_0m)]

\* What the recommendation_trend accessor returns when it has no table to
\* give: a value that is no DataFrame (the provider's error mapping), on which
\* df.empty raises AttributeError.
NotAFrame == [isframe |-> FALSE]

TrendRaises(df) == df = NotAFrame

\* A faulty create_summary, for contrast: the ratios are coerced to numbers.
CreateSummaryCoercing(full_info) ==
  LET idx_trend == full_info.index_trend
      ticker_earnings == full_info.earnings_trend
      trend_list == IF "trend" \in DOMAIN ticker_earnings.items
                    THEN ticker_earnings.items["trend"] ELSE <<>>
      at == FirstWithPeriod(trend_list, "+1q", 1)
      next_quarter == IF at # 0 THEN trend_list[at] ELSE <<>>
  IN  [recommendation |-> full_info.computed_recommendation,
       pe_ratio |-> Num(clean_numeric(safe_get(idx_trend, "peRatio", NoneValue), 0)),
       peg_ratio |-> Num(clean_numeric(safe_get(idx_trend, "pegRatio", NoneValue), 0)),
       next_quarter_growth |-> IF "growth" \in DOMAIN next_quarter
                               THEN next_quarter.growth ELSE NoneValue]

\* create_summary raises when index_trend or earnings_trend is no dict.
SummaryRaises(full_info) ==
  Raises(full_info.index_trend) \/ Raises(full_info.earnings_trend)

create_summary(full_info) ==
  LET idx_trend == full_info.index_trend
      ticker_earnings == full_info.earnings_trend
      trend_list == IF "trend" \in DOMAIN ticker_earnings.items
                    THEN ticker_earnings.items["trend"] ELSE <<>>
      at == FirstWithPeriod(trend_list, "+1q", 1)
      next_quarter == IF at # 0 THEN trend_list[at] ELSE <<>>
  IN  [recommendation |-> full_info.computed_recommendation,
       pe_ratio |-> safe_get(idx_trend, "peRatio", NoneValue),
       peg_ratio |-> safe_get(idx_trend, "pegRatio", NoneValue),
       next_quarter_growth |-> IF "growth" \in DOMAIN next_quarter
                               THEN next_quarter.growth ELSE NoneValue]

\* The except branch of the per-ticker loop (scrape.py lines 319-327).
ErrorAnalysis(ts) ==
  [analysis |-> [full_data |-> <<>>,
                 summary |-> [recommendation |-> "Error"],
                 timestamp |-> ts]]

\* The body of the per-ticker try (scrape.py lines 297-318), or its except branch.
AnalysisFor(rec_trend_df, earnings_data, index_data, ticker, ts) ==
  IF TrendRaises(rec_trend_df) THEN ErrorAnalysis(ts)
  ELSE
  LET rec_details == process_recommendation_trend(rec_trend_df, ticker)
      full_analysis ==
        [recommendation_trend |-> rec_details.recommendation_trend,
         computed_recommendation |-> rec_details.computed_recommendation,
         earnings_trend |-> EntryGet(earnings_data, ticker),
         index_trend |-> EntryGet(index_data, ticker)]
  IN  IF SummaryRaises(full_analysis) THEN ErrorAnalysis(ts)
      ELSE [analysis |-> [full_data |-> full_analysis,
                          summary |-> create_summary(full_analysis),
                          timestamp |-> ts]]

\* A faulty per-ticker loop, for contrast: the try encloses the loop, so the
\* first failing symbol gets the sentinel and ends the chunk.
RECURSIVE AnalysisChunkLoopAborting(_, _, _, _, _, _, _)
AnalysisChunkLoopAborting(chunk, i, rec_trend_df, earnings_data, index_data, results, ts) ==
  IF i > Len(chunk) THEN results
  ELSE LET record == AnalysisFor(rec_trend_df, earnings_data, index_data, chunk[i], ts)
       IN  IF record = ErrorAnalysis(ts) THEN Put(results, chunk[i], record)
           ELSE AnalysisChunkLoopAborting(chunk, i + 1, rec_trend_df, earnings_data,
                                          index_data, Put(results, chunk[i], record), ts)

\* A faulty per-ticker loop, for contrast: the except branch only logs, as in
\* the other three fetch functions.
RECURSIVE AnalysisChunkLoopOmitting(_, _, _, _, _, _, _)
AnalysisChunkLoopOmitting(chunk, i, rec_trend_df, earnings_data, index_data, results, ts) ==
  IF i > Len(chunk) THEN results
  ELSE LET record == AnalysisFor(rec_trend_df, earnings_data, index_data, chunk[i], ts)
       IN  AnalysisChunkLoopOmitting(chunk, i + 1, rec_trend_df, earnings_data, index_data,
             IF record = ErrorAnalysis(ts) THEN results ELSE Put(results, chunk[i], record),
             ts)

\* for ticker in chunk: results[ticker] = the analysis wrapper or the sentinel
RECURSIVE AnalysisChunkLoop(_, _, _, _, _, _, _)
AnalysisChunkLoop(chunk, i, rec_trend_df, earnings_data, index_data, results, ts) ==
  IF i > Len(chunk) THEN results
  ELSE AnalysisChunkLoop(chunk, i + 1, rec_trend_df, earnings_data, index_data,
         Put(results, chunk[i],
             AnalysisFor(rec_trend_df, earnings_data, index_data, chunk[i], ts)),
         ts)

\* The accessors fetch_analysis_data reads for one chunk, each in its own try
\* (scrape.py lines 199, 206, 213): each read is one upstream request.
AnalysisAccessors == <<"recommendation_trend", "earnings_trend", "index_trend">>

\* A faulty group loop, for contrast: one try around the three reads, so a
\* raising accessor leaves the chunk with an empty frame and two empty dicts.
RECURSIVE AnalysisGroupLoopSharedTry(_, _, _, _, _, _)
AnalysisGroupLoopSharedTry(groups, g, resp, results, requests, ts) ==
  IF g > Len(groups) THEN Returned(results, requests)
  ELSE LET r == resp[g]
           raised == r.rec_raises \/ r.earn_raises \/ r.idx_raises
           rec_trend_df == IF raised THEN EmptyFrame ELSE RecTable(r.data)
           earnings_data == IF raised THEN <<>> ELSE EarningsDict(r.data)
           index_data == IF raised THEN <<>> ELSE IndexDict(r.data)
       IN  AnalysisGroupLoopSharedTry(groups, g + 1, resp,
             AnalysisChunkLoop(groups[g], 1, rec_trend_df, earnings_data, index_data,
                               results, ts),
             requests + Len(AnalysisAccessors), ts)

\* for chunk in chunk_tickers(tickers, chunk_size=3): a raising accessor is
\* caught and replaced by an empty frame or dict.
RECURSIVE AnalysisGroupLoop(_, _, _, _, _, _)
AnalysisGroupLoop(groups, g, resp, results, requests, ts) ==
  IF g > Len(groups) THEN Returned(results, requests)
  ELSE LET r == resp[g]
           rec_trend_df == IF r.rec_raises THEN EmptyFrame ELSE RecTable(r.data)
           earnings_data == IF r.earn_raises THEN <<>> ELSE EarningsDict(r.data)
           index_data == IF r.idx_raises THEN <<>> ELSE IndexDict(r.data)
       IN  AnalysisGroupLoop(groups, g + 1, resp,
             AnalysisChunkLoop(groups[g], 1, rec_trend_df, earnings_data, index_data,
                               results, ts),
             requests + Len(AnalysisAccessors), ts)

\* The responses an analysis fetch can meet over its groups.
AnalysisResponses(groups) ==
  ResponsesFor([g \in DOMAIN groups |-> AnalysisGroupResponses(groups[g])])

fetch_analysis_data(tickers, resp, ts) ==
  AnalysisGroupLoop(chunk_tickers(tickers, FetchChunkSize), 1, resp, <<>>, 0, ts)

\* ------------------------------------------------- data storage / combination

\* d.get(t, {})
GetOrEmpty(d, t) == IF t \in DOMAIN d THEN d[t] ELSE <<>>

\* d.update(u)
Update(d, u) ==
  [k \in DOMAIN d \cup DOMAIN u |-> IF k \in DOMAIN u THEN u[k] ELSE d[k]]

combine_data_in_memory(live, daily, fundamentals, analysis) ==
  LET all_tickers == DOMAIN live \cup DOMAIN daily \cup DOMAIN fundamentals
                       \cup DOMAIN analysis
  IN  [t \in all_tickers |->
         LET base == [live |-> GetOrEmpty(live, t),
                      daily |-> GetOrEmpty(daily, t),
                      fundamentals |-> GetOrEmpty(fundamentals, t)]
         IN  IF t \in DOMAIN analysis THEN Update(base, analysis[t]) ELSE base]

\* The four mappings combine_data_in_memory is handed, as objects it could
\* change: fields live, daily, fundamentals, analysis.
Inputs(live, daily, fundamentals, analysis) ==
  [live |-> live, daily |-> daily, fundamentals |-> fundamentals, analysis |-> analysis]

\* A faulty all_tickers, for contrast: the symbols of the live mapping only.
LiveTickers(heap) == DOMAIN heap.live

\* all_tickers (scrape.py line 347)
AllTickers(heap) ==
  DOMAIN heap.live \cup DOMAIN heap.daily \cup DOMAIN heap.fundamentals
    \cup DOMAIN heap.analysis

\* The orders in which `for t in all_tickers` can visit a set.
Orders(S) == {o \in [1..Cardinality(S) -> S] : Range(o) = S}

\* A faulty loop, for contrast: a symbol without an analysis wrapper keeps the
\* wrapper of the symbol visited before it.
RECURSIVE CombineLoopCarrying(_, _, _, _)
CombineLoopCarrying(order, i, heap, combined) ==
  IF i > Len(order) THEN [out |-> combined, heap |-> heap]
  ELSE LET t == order[i]
           base == [live |-> GetOrEmpty(heap.live, t),
                    daily |-> GetOrEmpty(heap.daily, t),
                    fundamentals |-> GetOrEmpty(heap.fundamentals, t)]
           record == IF t \in DOMAIN heap.analysis THEN Update(base, heap.analysis[t])
                     ELSE IF i > 1 /\ order[i - 1] \in DOMAIN heap.analysis
                     THEN Update(base, heap.analysis[order[i - 1]])
                     ELSE base
       IN  CombineLoopCarrying(order, i + 1, heap, Put(combined, t, record))

\* for t in all_tickers (scrape.py lines 350-358), visiting the set in `order`:
\* the record is a new dict, so no input mapping changes.
RECURSIVE CombineLoop(_, _, _, _)
CombineLoop(order, i, heap, combined) ==
  IF i > Len(order) THEN [out |-> combined, heap |-> heap]
  ELSE LET t == order[i]
           base == [live |-> GetOrEmpty(heap.live, t),
                    daily |-> GetOrEmpty(heap.daily, t),
                    fundamentals |-> GetOrEmpty(heap.fundamentals, t)]
           record == IF t \in DOMAIN heap.analysis THEN Update(base, heap.analysis[t])
                     ELSE base
       IN  CombineLoop(order, i + 1, heap, Put(combined, t, record))

\* The JSON file: absent, a document json.load parses, or text it cannot parse.
NoFile == [state |-> "absent", content |-> <<>>]

JsonFile(content) == [state |-> "json", content |-> content]

Malformed == [state |-> "malformed", content |-> <<>>]

\* What the sink can do to one save_data call: nothing, fail the read of the
\* existing file, refuse to open it for writing, or fail part-way through the dump.
SinkFaults == {"none", "read", "open", "dump"}

\* A faulty merge, for contrast: a ticker's record is replaced whole.
MergeReplacingRecords(existing_data, data) == Update(existing_data, data)

\* scrape.py lines 377-381: every (ticker, category) of data replaces that slot.
MergeInto(existing_data, data) ==
  [t \in DOMAIN existing_data \cup DOMAIN data |->
     IF t \in DOMAIN data
     THEN Update(GetOrEmpty(existing_data, t), data[t])
     ELSE existing_data[t]]

\* The file save_data leaves.  json.load raises on a malformed file and on a
\* failed read; open(filename, 'w') truncates the file before json.dump writes,
\* so a dump that fails leaves text that is no document.  Every exception is
\* caught and logged.  The document read back is the one dumped: the data are
\* string-keyed dicts of numbers, strings, None and lists, which json round-trips.
save_data(file, data, fault) ==
  IF file.state = "malformed" \/ (file.state = "json" /\ fault = "read") THEN file
  ELSE LET existing_data == MergeInto(file.content, data)
       IN  CASE fault = "open" -> file
             [] fault = "dump" -> Malformed
             [] OTHER -> JsonFile(existing_data)

\* ------------------------------------------------- the relational sink
\* (src/src/db_ingest.py)

\* The tables of CREATE_TABLES_SQL, and the database before any row is inserted:
\* a table is the sequence of its rows in insertion order.
Tables ==
  {"Ticker", "LiveData", "DailyData", "Fundamentals", "Analysis",
   "RecommendationTrend", "EarningsTrend", "IndexTrend"}

EmptyDb == [t \in Tables |-> <<>>]

\* The id AUTOINCREMENT gives the next row of a table: one more than the
\* greatest id the table has held, which is its number of rows as long as no
\* row is deleted.
NextId(d, table) == Len(d[table]) + 1

\* cursor.execute("INSERT INTO <table> ...", row); conn.commit()
Insert(d, table, row) == [d EXCEPT ![table] = Append(@, row)]

\* data.get(key): None when the key is missing.
Column(data, key) == IF key \in DOMAIN data THEN data[key] ELSE NoneValue

\* The positions of the Ticker rows of a symbol (symbol is UNIQUE).
TickerRows(d, symbol) == {i \in DOMAIN d["Ticker"] : d["Ticker"][i].symbol = symbol}

\* A faulty get_or_create_ticker_id, for contrast: a plain INSERT into a table
\* whose symbol is not UNIQUE.
GetOrCreateAlwaysInserting(d, symbol) ==
  LET after == Insert(d, "Ticker", [id |-> NextId(d, "Ticker"), symbol |-> symbol])
      at == CHOOSE i \in TickerRows(after, symbol) : TRUE
  IN  [db |-> after, id |-> after["Ticker"][at].id]

\* INSERT OR IGNORE INTO Ticker, then SELECT id: the database it leaves and the
\* id it returns.
get_or_create_ticker_id(d, symbol) ==
  LET after == IF TickerRows(d, symbol) = {}
               THEN Insert(d, "Ticker", [id |-> NextId(d, "Ticker"), symbol |-> symbol])
               ELSE d
      at == CHOOSE i \in TickerRows(after, symbol) : TRUE
  IN  [db |-> after, id |-> after["Ticker"][at].id]

\* A faulty store_live_data, for contrast: an upsert that overwrites the row
\* the ticker already has.
StoreLiveDataUpserting(d, ticker_id, data) ==
  LET mine == {i \in DOMAIN d["LiveData"] : d["LiveData"][i].ticker_id = ticker_id}
      row(id) == [id |-> id, ticker_id |-> ticker_id,
                  price |-> Column(data, "price"), change |-> Column(data, "change"),
                  percent_change |-> Column(data, "percent_change"),
                  timestamp |-> Column(data, "timestamp")]
  IN  IF mine = {} THEN Insert(d, "LiveData", row(NextId(d, "LiveData")))
      ELSE [d EXCEPT !["LiveData"] =
              [i \in DOMAIN @ |-> IF i \in mine THEN row(@[i].id) ELSE @[i]]]

store_live_data(d, ticker_id, data) ==
  Insert(d, "LiveData",
         [id |-> NextId(d, "LiveData"), ticker_id |-> ticker_id,
          price |-> Column(data, "price"), change |-> Column(data, "change"),
          percent_change |-> Column(data, "percent_change"),
          timestamp |-> Column(data, "timestamp")])

store_daily_data(d, ticker_id, data) ==
  Insert(d, "DailyData",
         [id |-> NextId(d, "DailyData"), ticker_id |-> ticker_id,
          open |-> Column(data, "open"),
          previous_close |-> Column(data, "previous_close"),
          day_high |-> Column(data, "day_high"), day_low |-> Column(data, "day_low"),
          volume |-> Column(data, "volume"), market_cap |-> Column(data, "market_cap"),
          trailing_pe |-> Column(data, "trailing_pe"),
          forward_pe |-> Column(data, "forward_pe"),
          timestamp |-> Column(data, "timestamp")])

store_fundamental_data(d, ticker_id, data) ==
  Insert(d, "Fundamentals",
         [id |-> NextId(d, "Fundamentals"), ticker_id |-> ticker_id,
          sector |-> Column(data, "sector"), industry |-> Column(data, "industry"),
          full_time_employees |-> Column(data, "full_time_employees"),
          country |-> Column(data, "country"), website |-> Column(data, "website"),
          description |-> Column(data, "description"),
          timestamp |-> Column(data, "timestamp")])

\* cursor.execute(insert, ...) for each element of a list: the rows are appended
\* in list order, with consecutive ids.
InsertAll(d, table, rows) == [d EXCEPT ![table] = @ \o rows]

\* d.get(key, {}) and d.get(key, []): the empty dict and the empty list are
\* both the empty function.
GetOr(data, key) == IF key \in DOMAIN data THEN data[key] ELSE <<>>

\* A faulty store_analysis_data, for contrast: the child rows carry the ticker
\* id where the id of the new Analysis row belongs.
StoreAnalysisDataByTicker(d, ticker_id, data) ==
  LET analysis_dict == GetOr(data, "analysis")
      summary == GetOr(analysis_dict, "summary")
      full_data == GetOr(analysis_dict, "full_data")
      analysis_id == NextId(d, "Analysis")
      parent == ticker_id
      d1 == Insert(d, "Analysis",
                   [id |-> analysis_id, ticker_id |-> ticker_id,
                    computed_recommendation |-> Column(summary, "recommendation"),
                    pe_ratio |-> Column(summary, "pe_ratio"),
                    peg_ratio |-> Column(summary, "peg_ratio"),
                    next_quarter_growth |-> Column(summary, "next_quarter_growth"),
                    timestamp |-> Column(analysis_dict, "timestamp")])
      recommendation_list == GetOr(full_data, "recommendation_trend")
      d2 == InsertAll(d1, "RecommendationTrend",
              [i \in DOMAIN recommendation_list |->
                 LET rec_row == recommendation_list[i]
                 IN  [id |-> Len(d1["RecommendationTrend"]) + i,
                      analysis_id |-> parent, period |-> rec_row.period,
                      strongBuy |-> Column(rec_row.counts, "strongBuy"),
                      buy |-> Column(rec_row.counts, "buy"),
                      hold |-> Column(rec_row.counts, "hold"),
                      sell |-> Column(rec_row.counts, "sell"),
                      strongSell |-> Column(rec_row.counts, "strongSell")]])
      earnings_dict == IF "earnings_trend" \in DOMAIN full_data
                       THEN full_data.earnings_trend ELSE EmptyDict
      trend_list == GetOr(earnings_dict.items, "trend")
      d3 == InsertAll(d2, "EarningsTrend",
              [i \in DOMAIN trend_list |->
                 [id |-> Len(d2["EarningsTrend"]) + i, analysis_id |-> parent,
                  period |-> Column(trend_list[i], "period"),
                  growth |-> Column(trend_list[i], "growth")]])
      index_dict == IF "index_trend" \in DOMAIN full_data
                    THEN full_data.index_trend ELSE EmptyDict
  IN  IF index_dict.items = <<>> THEN d3
      ELSE Insert(d3, "IndexTrend",
                  [id |-> NextId(d3, "IndexTrend"), analysis_id |-> parent,
                   peRatio |-> Column(index_dict.items, "peRatio"),
                   pegRatio |-> Column(index_dict.items, "pegRatio")])

store_analysis_data(d, ticker_id, data) ==
  LET analysis_dict == GetOr(data, "analysis")
      summary == GetOr(analysis_dict, "summary")
      full_data == GetOr(analysis_dict, "full_data")
      analysis_id == NextId(d, "Analysis")
      d1 == Insert(d, "Analysis",
                   [id |-> analysis_id, ticker_id |-> ticker_id,
                    computed_recommendation |-> Column(summary, "recommendation"),
                    pe_ratio |-> Column(summary, "pe_ratio"),
                    peg_ratio |-> Column(summary, "peg_ratio"),
                    next_quarter_growth |-> Column(summary, "next_quarter_growth"),
                    timestamp |-> Column(analysis_dict, "timestamp")])
      recommendation_list == GetOr(full_data, "recommendation_trend")
      d2 == InsertAll(d1, "RecommendationTrend",
              [i \in DOMAIN recommendation_list |->
                 LET rec_row == recommendation_list[i]
                 IN  [id |-> Len(d1["RecommendationTrend"]) + i,
                      analysis_id |-> analysis_id, period |-> rec_row.period,
                      strongBuy |-> Column(rec_row.counts, "strongBuy"),
                      buy |-> Column(rec_row.counts, "buy"),
                      hold |-> Column(rec_row.counts, "hold"),
                      sell |-> Column(rec_row.counts, "sell"),
                      strongSell |-> Column(rec_row.counts, "strongSell")]])
      earnings_dict == IF "earnings_trend" \in DOMAIN full_data
                       THEN full_data.earnings_trend ELSE EmptyDict
      trend_list == GetOr(earnings_dict.items, "trend")
      d3 == InsertAll(d2, "EarningsTrend",
              [i \in DOMAIN trend_list |->
                 [id |-> Len(d2["EarningsTrend"]) + i, analysis_id |-> analysis_id,
                  period |-> Column(trend_list[i], "period"),
                  growth |-> Column(trend_list[i], "growth")]])
      index_dict == IF "index_trend" \in DOMAIN full_data
                    THEN full_data.index_trend ELSE EmptyDict
  IN  IF index_dict.items = <<>> THEN d3
      ELSE Insert(d3, "IndexTrend",
                  [id |-> NextId(d3, "IndexTrend"), analysis_id |-> analysis_id,
                   peRatio |-> Column(index_dict.items, "peRatio"),
                   pegRatio |-> Column(index_dict.items, "pegRatio")])

\* db_ingest.main, lines 362-376: the body of `for tkr in all_tickers`, given
\* the four fetch outputs.  A category is stored when tkr is a key of its output.
StoreTickerData(d, tkr, live_data, daily_data, fundamental_data, analysis_data) ==
  LET made == get_or_create_ticker_id(d, tkr)
      ticker_id == made.id
      d1 == IF tkr \in DOMAIN live_data
            THEN store_live_data(made.db, ticker_id, live_data[tkr])
            ELSE made.db
      d2 == IF tkr \in DOMAIN daily_data
            THEN store_daily_data(d1, ticker_id, daily_data[tkr])
            ELSE d1
      d3 == IF tkr \in DOMAIN fundamental_data
            THEN store_fundamental_data(d2, ticker_id, fundamental_data[tkr])
            ELSE d2
  IN  IF tkr \in DOMAIN analysis_data
      THEN store_analysis_data(d3, ticker_id, analysis_data[tkr])
      ELSE d3

\* A faulty fetch_and_store_live_for_ticker, for contrast: the Ticker row is
\* found or created before the fetch's output is looked at.
FetchAndStoreCreatingTickerFirst(d, ticker, resp, ts) ==
  LET fetched == fetch_live_data(<<ticker>>, resp, ts)
      ticker_data == fetched.results
      made == get_or_create_ticker_id(d, ticker)
  IN  [raised |-> fetched.raised,
       db |-> IF fetched.raised THEN d
              ELSE IF ticker \in DOMAIN ticker_data
              THEN store_live_data(made.db, made.id, ticker_data[ticker])
              ELSE made.db]

\* fetch_and_store_live_for_ticker(db_path, ticker), lines 305-323, on the
\* database at db_path: init_db, the live fetch of the one ticker, and the
\* store when the fetch returned a record for it.  An exception of the fetch
\* leaves the function before anything is stored.
fetch_and_store_live_for_ticker(d, ticker, resp, ts) ==
  LET fetched == fetch_live_data(<<ticker>>, resp, ts)
      ticker_data == fetched.results
      made == get_or_create_ticker_id(d, ticker)
  IN  [raised |-> fetched.raised,
       db |-> IF ~fetched.raised /\ ticker \in DOMAIN ticker_data
              THEN store_live_data(made.db, made.id, ticker_data[ticker])
              ELSE d]

\* ------------------------------------------------- the snapshot
\* (src/src/run_all.py)

\* The symbols in the order ORDER BY t.symbol gives them.
SortedSymbols == <<"AAPL", "GOOGL", "MSFT", "TSLA">>

\* A faulty subquery, for contrast: SELECT MIN(id) FROM LiveData GROUP BY ticker_id
MinIdPerTicker(d) ==
  LET live == d["LiveData"]
      Group(g) == {live[i].id : i \in {j \in DOMAIN live : live[j].ticker_id = g}}
  IN  {CHOOSE m \in Group(g) : \A n \in Group(g) : m <= n :
         g \in {live[i].ticker_id : i \in DOMAIN live}}

\* SELECT MAX(id) FROM LiveData GROUP BY ticker_id
MaxIdPerTicker(d) ==
  LET live == d["LiveData"]
      Group(g) == {live[i].id : i \in {j \in DOMAIN live : live[j].ticker_id = g}}
  IN  {CHOOSE m \in Group(g) : \A n \in Group(g) : n <= m :
         g \in {live[i].ticker_id : i \in DOMAIN live}}

\* The rows the query gives for the symbols from position i of SortedSymbols
\* on: LiveData joined to Ticker on t.id = l.ticker_id, kept when l.id is one
\* of ids, in symbol order (the rows of one symbol in the table's order).
RECURSIVE SnapshotRows(_, _, _)
SnapshotRows(d, ids, i) ==
  IF i > Len(SortedSymbols) THEN <<>>
  ELSE LET symbol == SortedSymbols[i]
           t_ids == {d["Ticker"][k].id : k \in TickerRows(d, symbol)}
           Kept(l) == l.ticker_id \in t_ids /\ l.id \in ids
           Shown(l) == [symbol |-> symbol, price |-> l.price, change |-> l.change,
                        percent_change |-> l.percent_change, timestamp |-> l.timestamp]
           mine == SelectSeq(d["LiveData"], Kept)
       IN  [k \in DOMAIN mine |-> Shown(mine[k])] \o SnapshotRows(d, ids, i + 1)

\* display_basic_data_for_all_tickers(), lines 160-198, on the database at
\* DB_FILE: the rows it prints, none when it prints "No live data found".
display_basic_data_for_all_tickers(d) == SnapshotRows(d, MaxIdPerTicker(d), 1)

\* ------------------------------------------------- the spinner
\* (src/src/run_all.py)

\* A Python value that show_spinner's `complete` can hold: a bool, or a list of
\* one bool.
Bool(b) == [islist |-> FALSE, v |-> b]

\* value[0], and value[0] = x: a bool is not subscriptable and supports no item
\* assignment (TypeError).
SubscriptRaises(value) == ~value.islist

GetItem(value) == value.v

SetItem(value, x) == [value EXCEPT !.v = x]

\* ["|", "/", "-", "\\"]
spinner_chars == <<"|", "/", "-", "backslash">>

\* ---------------------------------------------------------------- variables

VARIABLES
  chunkCall,    \* a call of chunk_tickers: its arguments and the groups it yields
  recCall,      \* a call of interpret_recommendation: its row and its label
  fetchCall,    \* a call of a fetch function: its arguments, the upstream
                \* responses it met, and how it ended
  main,         \* a run of main: its position, its run number and its locals
  doc,          \* the JSON file data/stock_data.json
  lastSave,     \* the last call of save_data: the file before it, its data, the
                \* sink's fault, and the number of calls so far
  trendCall,    \* a call of process_recommendation_trend: its table, its symbol
                \* and what it returned
  asmCall,      \* the assembly of one symbol's analysis: the three upstream
                \* structures and the record written to results
  combineCall,  \* calls of combine_data_in_memory on four mappings: the mappings
                \* (as the calls leave them) and each call's output
  db,           \* the SQLite database data/stock_data.db: its tables' rows
  ingest,       \* a run of db_ingest.main: its position and its locals
  savers,       \* two processes inside save_data on the same file: each one's
                \* position, its data and its existing_data
  sinkCall,     \* the last call on the relational sink: the function, its
                \* arguments, the database before it and what it returned
  runAll        \* a run of run_all.main: its position, show_spinner's local
                \* complete, and the spinner thread

vars == <<chunkCall, recCall, fetchCall, main, doc, lastSave,
          trendCall, asmCall, combineCall, db, ingest, savers, sinkCall, runAll>>

ChunkIdle ==
  chunkCall = [called |-> FALSE, tickers |-> <<>>, chunk_size |-> 1, groups |-> <<>>]

RecIdle == recCall = [called |-> FALSE, row |-> NotADict, label |-> ""]

FetchIdle ==
  fetchCall = [called |-> FALSE, category |-> "live", tickers |-> <<>>,
               resp |-> <<>>, out |-> Returned(<<>>, 0)]

\* main has not run: no run number, no locals.
NotStarted ==
  [pc |-> "start", now |-> 0, faults |-> 0, raisedIn |-> "none",
   live_data |-> <<>>, daily_data |-> <<>>, fundamental_data |-> <<>>,
   analysis_data |-> <<>>, combined_data |-> <<>>]

NoSave == [calls |-> 0, before |-> NoFile, data |-> <<>>, fault |-> "none"]

\* The sink as the program finds it first: no file, no call of save_data yet.
SinkFresh == doc = NoFile /\ lastSave = NoSave

\* No call of process_recommendation_trend yet.
TrendIdle ==
  trendCall = [called |-> FALSE, df |-> EmptyFrame, ticker_sym |-> "AAPL",
               out |-> [recommendation_trend |-> <<>>, computed_recommendation |-> ""]]

\* No symbol's analysis assembled yet.
AsmIdle ==
  asmCall = [called |-> FALSE, rec_trend_df |-> EmptyFrame, earnings_data |-> <<>>,
             index_data |-> <<>>, ticker |-> "AAPL", out |-> <<>>]

\* No call of combine_data_in_memory yet.
NoCombine ==
  [calls |-> 0, given |-> <<>>, live |-> <<>>, daily |-> <<>>, fundamentals |-> <<>>,
   analysis |-> <<>>, outs |-> <<>>]

\* db_ingest.main has not run.
NotIngesting ==
  [pc |-> "start", now |-> 0, raisedIn |-> "none", todo |-> {},
   live_data |-> <<>>, daily_data |-> <<>>, fundamental_data |-> <<>>,
   analysis_data |-> <<>>]

\* No process is inside save_data.
NoSavers == <<>>

\* No function of db_ingest.py or run_all.py called on its own yet.
NoSinkCall ==
  [calls |-> 0, op |-> "none", symbol |-> "", data |-> <<>>, raised |-> FALSE,
   found |-> FALSE, before |-> EmptyDb, id |-> 0, rows |-> <<>>, ids |-> <<>>]

\* run_all.main has not run.
NotRunning ==
  [pc |-> "start", complete |-> Bool(FALSE), spinner |-> "none", i |-> 0]

\* What the JSON pipeline's specifications leave alone.
RestIdle ==
  /\ TrendIdle /\ AsmIdle
  /\ combineCall = NoCombine
  /\ db = EmptyDb
  /\ ingest = NotIngesting
  /\ savers = NoSavers
  /\ sinkCall = NoSinkCall /\ runAll = NotRunning

\* -------------------------------------------- chunk_tickers, called directly

InitChunk ==
  /\ \E tickers \in TickerLists, chunk_size \in 1..MaxChunk :
       chunkCall = [called |-> FALSE, tickers |-> tickers,
                    chunk_size |-> chunk_size, groups |-> <<>>]
  /\ RecIdle /\ FetchIdle /\ main = NotStarted /\ SinkFresh /\ RestIdle

\* A caller iterates chunk_tickers(tickers, chunk_size) to its end.
ChunkTickers ==
  /\ ~chunkCall.called
  /\ chunkCall' = [chunkCall EXCEPT
                     !.called = TRUE,
                     !.groups = chunk_tickers(chunkCall.tickers, chunkCall.chunk_size)]
  /\ UNCHANGED <<recCall, fetchCall, main, doc, lastSave, trendCall, asmCall, combineCall, db, ingest, savers, sinkCall, runAll>>

NextChunk == ChunkTickers

SpecChunk == InitChunk /\ [][NextChunk]_vars

\* --------------------------------- interpret_recommendation, called directly

InitRec ==
  /\ \E row \in CountRows : recCall = [called |-> FALSE, row |-> row, label |-> ""]
  /\ ChunkIdle /\ FetchIdle /\ main = NotStarted /\ SinkFresh /\ RestIdle

InterpretRecommendation ==
  /\ ~recCall.called
  /\ recCall' = [recCall EXCEPT !.called = TRUE,
                                !.label = interpret_recommendation(recCall.row)]
  /\ UNCHANGED <<chunkCall, fetchCall, main, doc, lastSave, trendCall, asmCall, combineCall, db, ingest, savers, sinkCall, runAll>>

NextRec == InterpretRecommendation

SpecRec == InitRec /\ [][NextRec]_vars

\* ------------------------------------------ the fetch functions, called directly

\* The time a directly called fetch stamps its records with.
FetchTime == MaxRuns + 1

InitFetch ==
  /\ \E category \in Categories, tickers \in TickerLists :
       fetchCall = [called |-> FALSE, category |-> category, tickers |-> tickers,
                    resp |-> <<>>, out |-> Returned(<<>>, 0)]
  /\ ChunkIdle /\ RecIdle /\ main = NotStarted /\ SinkFresh /\ RestIdle

\* The call ends with `out`, having met the responses `resp`.
FetchEnds(resp, out) ==
  /\ fetchCall' = [fetchCall EXCEPT !.called = TRUE, !.resp = resp, !.out = out]
  /\ UNCHANGED <<chunkCall, recCall, main, doc, lastSave, trendCall, asmCall, combineCall, db, ingest, savers, sinkCall, runAll>>

FetchGroups == chunk_tickers(fetchCall.tickers, FetchChunkSize)

FetchLiveData ==
  /\ ~fetchCall.called /\ fetchCall.category = "live"
  /\ \E resp \in SimpleResponses(FetchGroups) :
       FetchEnds(resp, fetch_live_data(fetchCall.tickers, resp, FetchTime))

FetchDailyData ==
  /\ ~fetchCall.called /\ fetchCall.category = "daily"
  /\ \E resp \in SimpleResponses(FetchGroups) :
       FetchEnds(resp, fetch_daily_data(fetchCall.tickers, resp, FetchTime))

FetchFundamentalData ==
  /\ ~fetchCall.called /\ fetchCall.category = "fundamentals"
  /\ \E resp \in SimpleResponses(FetchGroups) :
       FetchEnds(resp, fetch_fundamental_data(fetchCall.tickers, resp, FetchTime))

FetchAnalysisData ==
  /\ ~fetchCall.called /\ fetchCall.category = "analysis"
  /\ \E resp \in AnalysisResponses(FetchGroups) :
       FetchEnds(resp, fetch_analysis_data(fetchCall.tickers, resp, FetchTime))

NextFetch ==
  \/ FetchLiveData
  \/ FetchDailyData
  \/ FetchFundamentalData
  \/ FetchAnalysisData

SpecFetch == InitFetch /\ [][NextFetch]_vars

\* ------------------------------------------------------ main orchestration

\* The faults of one fetch: its raising requests and its entries that are not data.
SimpleFaults(resp) ==
  Cardinality({g \in DOMAIN resp : resp[g].raises})
    + Cardinality({<<g, t>> \in (DOMAIN resp) \X Symbols :
                     /\ ~resp[g].raises
                     /\ t \in DOMAIN resp[g].data
                     /\ resp[g].data[t] # "data"})

AnalysisFaults(resp) ==
  Cardinality({<<g, a>> \in (DOMAIN resp) \X {"rec", "earn", "idx"} :
                 \/ a = "rec" /\ resp[g].rec_raises
                 \/ a = "earn" /\ resp[g].earn_raises
                 \/ a = "idx" /\ resp[g].idx_raises})
    + Cardinality({<<g, t>> \in (DOMAIN resp) \X Symbols :
                     t \in DOMAIN resp[g].data /\ resp[g].data[t] # "data"})

MainGroups == chunk_tickers(ticker_list, FetchChunkSize)

\* The responses a fetch of main can meet: the run's faults stay within MaxFaults.
MainResponses == 
  {r \in SimpleResponses(MainGroups) :
     main.faults + SimpleFaults(r) <= MaxFaults}

MainAnalysisResponses ==
  {r \in AnalysisResponses(MainGroups) :
     main.faults + AnalysisFaults(r) <= MaxFaults}

\* An exception leaves main from the fetch of `category`: the process ends.
Aborted(m, category, faults) ==
  [m EXCEPT !.pc = "aborted", !.raisedIn = category, !.faults = faults]

\* main starts (a new process, with a new run number) and calls fetch_live_data.
MainFetchLive ==
  /\ main.pc \in {"start", "done", "aborted"}
  /\ main.now < MaxRuns
  /\ \E resp \in {r \in SimpleResponses(MainGroups) :
                    SimpleFaults(r) <= MaxFaults} :
       LET m == [NotStarted EXCEPT !.now = main.now + 1]
           out == fetch_live_data(ticker_list, resp, m.now)
       IN  main' = IF out.raised THEN Aborted(m, "live", SimpleFaults(resp))
                   ELSE [m EXCEPT !.pc = "fetch_daily", !.live_data = out.results,
                                  !.faults = SimpleFaults(resp)]
  /\ UNCHANGED <<chunkCall, recCall, fetchCall, doc, lastSave, trendCall, asmCall, combineCall, db, ingest, savers, sinkCall, runAll>>

MainFetchDaily ==
  /\ main.pc = "fetch_daily"
  /\ \E resp \in MainResponses :
       LET out == fetch_daily_data(ticker_list, resp, main.now)
           faults == main.faults + SimpleFaults(resp)
       IN  main' = IF out.raised THEN Aborted(main, "daily", faults)
                   ELSE [main EXCEPT !.pc = "fetch_fundamental",
                                     !.daily_data = out.results, !.faults = faults]
  /\ UNCHANGED <<chunkCall, recCall, fetchCall, doc, lastSave, trendCall, asmCall, combineCall, db, ingest, savers, sinkCall, runAll>>

MainFetchFundamental ==
  /\ main.pc = "fetch_fundamental"
  /\ \E resp \in MainResponses :
       LET out == fetch_fundamental_data(ticker_list, resp, main.now)
           faults == main.faults + SimpleFaults(resp)
       IN  main' = IF out.raised THEN Aborted(main, "fundamentals", faults)
                   ELSE [main EXCEPT !.pc = "fetch_analysis",
                                     !.fundamental_data = out.results, !.faults = faults]
  /\ UNCHANGED <<chunkCall, recCall, fetchCall, doc, lastSave, trendCall, asmCall, combineCall, db, ingest, savers, sinkCall, runAll>>

MainFetchAnalysis ==
  /\ main.pc = "fetch_analysis"
  /\ \E resp \in MainAnalysisResponses :
       LET out == fetch_analysis_data(ticker_list, resp, main.now)
           faults == main.faults + AnalysisFaults(resp)
       IN  main' = IF out.raised THEN Aborted(main, "analysis", faults)
                   ELSE [main EXCEPT !.pc = "combine",
                                     !.analysis_data = out.results, !.faults = faults]
  /\ UNCHANGED <<chunkCall, recCall, fetchCall, doc, lastSave, trendCall, asmCall, combineCall, db, ingest, savers, sinkCall, runAll>>

MainCombine ==
  /\ main.pc = "combine"
  /\ main' = [main EXCEPT
                !.pc = "save",
                !.combined_data =
                  combine_data_in_memory(main.live_data, main.daily_data,
                                         main.fundamental_data, main.analysis_data)]
  /\ UNCHANGED <<chunkCall, recCall, fetchCall, doc, lastSave, trendCall, asmCall, combineCall, db, ingest, savers, sinkCall, runAll>>

\* save_data(data, DATA_FILE) under the sink's fault: the file it leaves, and
\* the record of the call.
SaveCall(data, fault) ==
  /\ doc' = save_data(doc, data, fault)
  /\ lastSave' = [calls |-> lastSave.calls + 1, before |-> doc,
                  data |-> data, fault |-> fault]

MainSave ==
  /\ main.pc = "save"
  /\ \E fault \in SinkFaults : SaveCall(main.combined_data, fault)
  /\ main' = [main EXCEPT !.pc = "done"]
  /\ UNCHANGED <<chunkCall, recCall, fetchCall, trendCall, asmCall, combineCall, db, ingest, savers, sinkCall, runAll>>

Init ==
  /\ ChunkIdle /\ RecIdle /\ FetchIdle
  /\ main = NotStarted
  /\ SinkFresh
  /\ RestIdle

Next ==
  \/ MainFetchLive
  \/ MainFetchDaily
  \/ MainFetchFundamental
  \/ MainFetchAnalysis
  \/ MainCombine
  \/ MainSave

Spec == Init /\ [][Next]_vars

\* ------------------------------------------------ save_data, called directly

\* The symbols and the category values of the documents handed to save_data.
SaveSymbols == {"AAPL", "MSFT"}

Stamped(n) == [timestamp |-> n]

SlotValues == {Stamped(1), Stamped(2)}

\* Every symbol-keyed document of at most n (symbol, category) slots; a symbol
\* may also come with an empty record.
Documents(n) ==
  UNION {
    UNION {
      {[t \in E \cup {p[1] : p \in P} |->
          [c \in {p[2] : p \in {q \in P : q[1] = t}} |-> v[<<t, c>>]]] :
         v \in [P -> SlotValues]} :
      E \in SUBSET SaveSymbols} :
    P \in {Q \in SUBSET (SaveSymbols \X Categories) : Cardinality(Q) <= n}}

\* The file a call can find: none, one that earlier calls wrote, or one that an
\* earlier failed dump left.
InitSave ==
  /\ doc \in {NoFile, Malformed} \cup {JsonFile(d) : d \in Documents(MaxStored)}
  /\ lastSave = NoSave
  /\ ChunkIdle /\ RecIdle /\ FetchIdle /\ main = NotStarted /\ RestIdle

SaveData ==
  /\ lastSave.calls = 0
  /\ \E data \in Documents(MaxSlots), fault \in SinkFaults : SaveCall(data, fault)
  /\ UNCHANGED <<chunkCall, recCall, fetchCall, main, trendCall, asmCall, combineCall, db, ingest, savers, sinkCall, runAll>>

NextSave == SaveData

SpecSave == InitSave /\ [][NextSave]_vars

\* ------------------------------- save_data, two processes on the same file

\* Two runs of the script (two shells, or a scheduler starting a run before the
\* last one has finished) are two processes, each inside save_data on
\* data/stock_data.json.  save_data takes no lock and writes in place, so its
\* file operations interleave freely: the read (lines 370-372), the
\* truncating open (383) and the dump (384).
Savers == {1, 2}

\* What saver p hands to save_data: one category of one symbol, stamped with
\* the saver's number.
SaverData(p) ==
  {[t \in {sym} |-> [c \in {category} |-> Stamped(p)]] :
     sym \in SaveSymbols, category \in Categories}

\* The file the two find: none, or a document of earlier runs.
InitRace ==
  /\ doc \in {NoFile, JsonFile(<<>>), JsonFile([t \in {"AAPL"} |-> [live |-> Stamped(0)]])}
  /\ \E d1 \in SaverData(1), d2 \in SaverData(2) :
       savers = [p \in Savers |->
                   [pc |-> "start", data |-> IF p = 1 THEN d1 ELSE d2,
                    existing_data |-> <<>>]]
  /\ lastSave = NoSave
  /\ ChunkIdle /\ RecIdle /\ FetchIdle /\ main = NotStarted
  /\ TrendIdle /\ AsmIdle /\ combineCall = NoCombine
  /\ db = EmptyDb /\ ingest = NotIngesting
  /\ sinkCall = NoSinkCall /\ runAll = NotRunning

\* Lines 369-381: os.path.exists, json.load of the file as it is now, and the
\* merge into the local existing_data.  json.load raises on a file that another
\* process has truncated and not yet written; the except (387) logs, and the
\* call returns with nothing written.
SaverLoad(p) ==
  /\ savers[p].pc = "start"
  /\ savers' =
       IF doc.state = "malformed"
       THEN [savers EXCEPT ![p].pc = "failed"]
       ELSE [savers EXCEPT ![p].pc = "merged",
                           ![p].existing_data = MergeInto(doc.content, savers[p].data)]
  /\ UNCHANGED <<chunkCall, recCall, fetchCall, main, doc, lastSave,
                 trendCall, asmCall, combineCall, db, ingest, sinkCall, runAll>>

\* Line 383: open(filename, 'w') truncates the file.
SaverOpen(p) ==
  /\ savers[p].pc = "merged"
  /\ doc' = Malformed
  /\ savers' = [savers EXCEPT ![p].pc = "opened"]
  /\ UNCHANGED <<chunkCall, recCall, fetchCall, main, lastSave,
                 trendCall, asmCall, combineCall, db, ingest, sinkCall, runAll>>

\* Line 384: json.dump writes the local existing_data, and the file is closed.
SaverDump(p) ==
  /\ savers[p].pc = "opened"
  /\ doc' = JsonFile(savers[p].existing_data)
  /\ savers' = [savers EXCEPT ![p].pc = "done"]
  /\ UNCHANGED <<chunkCall, recCall, fetchCall, main, lastSave,
                 trendCall, asmCall, combineCall, db, ingest, sinkCall, runAll>>

NextRace ==
  \/ \E p \in Savers : SaverLoad(p)
  \/ \E p \in Savers : SaverOpen(p)
  \/ \E p \in Savers : SaverDump(p)

SpecRace == InitRace /\ [][NextRace]_vars

\* ------------------------- process_recommendation_trend, called directly

TrendPeriods == {"-1m", "0m"}

\* Rows whose counts give three different labels (Strong Buy, Hold, Buy), and
\* rows whose five counts are equal: no vote at all, and one vote each.
TrendCounts ==
  {Counts(MaxCount, 0, 0, 0, 0), Counts(0, 0, MaxCount, 0, 0), Counts(0, 1, 0, 0, 1),
   Counts(0, 0, 0, 0, 0), Counts(1, 1, 1, 1, 1)}

TrendRows == {TrendRow(p, c) : p \in TrendPeriods, c \in TrendCounts}

\* The rows of one symbol in a table, in row order: a symbol of the index has
\* at least one row.
TrendRowLists == UNION {[1..n -> TrendRows] : n \in 1..MaxTrendRows}

\* The recommendation tables: the empty frame, or rows for AAPL, for MSFT or
\* for both.
TrendTables ==
  {EmptyFrame, [t \in {"MSFT"} |-> SampleRows]}
    \cup {[t \in {"AAPL"} |-> rows] : rows \in TrendRowLists}
    \cup {[t \in {"AAPL", "MSFT"} |-> IF t = "AAPL" THEN rows ELSE SampleRows] :
            rows \in TrendRowLists}

InitTrend ==
  /\ \E df \in TrendTables, ticker_sym \in {"AAPL", "MSFT"} :
       trendCall = [called |-> FALSE, df |-> df, ticker_sym |-> ticker_sym,
                    out |-> [recommendation_trend |-> <<>>,
                             computed_recommendation |-> ""]]
  /\ ChunkIdle /\ RecIdle /\ FetchIdle /\ main = NotStarted /\ SinkFresh
  /\ AsmIdle /\ combineCall = NoCombine /\ db = EmptyDb /\ ingest = NotIngesting
  /\ savers = NoSavers /\ sinkCall = NoSinkCall /\ runAll = NotRunning

ProcessRecommendationTrend ==
  /\ ~trendCall.called
  /\ trendCall' = [trendCall EXCEPT
                     !.called = TRUE,
                     !.out = process_recommendation_trend(trendCall.df,
                                                          trendCall.ticker_sym)]
  /\ UNCHANGED <<chunkCall, recCall, fetchCall, main, doc, lastSave,
                 asmCall, combineCall, db, ingest, savers, sinkCall, runAll>>

NextTrend == ProcessRecommendationTrend

SpecTrend == InitTrend /\ [][NextTrend]_vars

\* ------------------------- the assembly of one symbol's analysis, on its own

\* Row lists whose current row has each of the five labels, and the sample.
LabelCounts ==
  {Counts(1, 0, 0, 0, 0), Counts(0, 1, 0, 0, 0), Counts(0, 0, 1, 0, 0),
   Counts(0, 0, 0, 1, 0), Counts(0, 0, 0, 0, 1)}

AsmRowLists == {<<TrendRow("0m", c)>> : c \in LabelCounts} \cup {SampleRows}

\* What rec_trend_df can be when the symbols are assembled: the empty frame
\* (line 203), no frame at all, or a table with rows for AAPL, or for MSFT only.
AsmTables ==
  {EmptyFrame, NotAFrame, [t \in {"MSFT"} |-> SampleRows]}
    \cup {[t \in {"AAPL"} |-> rows] : rows \in AsmRowLists}

Trend(list) == [isdict |-> TRUE, items |-> [trend |-> list]]

\* The earnings-trend entries of a symbol: the sample (its "+1q" entry is the
\* second), no "+1q" entry, two "+1q" entries, a "+1q" entry without growth, a
\* dict without a trend list, and the provider's error text.
EarningsEntries ==
  {SampleEarnings,
   Trend(<<[period |-> "0q", growth |-> Num(3)]>>),
   Trend(<<[period |-> "+1q", growth |-> Num(5)], [period |-> "+1q", growth |-> Num(6)]>>),
   Trend(<<[period |-> "+1q"]>>),
   Trend(<<[period |-> "+1q", growth |-> NoneValue]>>),
   EmptyDict,
   ErrorText}

\* The index-trend entries of a symbol: the sample, one ratio only, a ratio
\* that is None, a ratio that is a text, the empty dict, the error text.
IndexEntries ==
  {SampleIndex,
   Dict([peRatio |-> Num(20)]),
   Dict([peRatio |-> NoneValue, pegRatio |-> Num(2)]),
   Dict([peRatio |-> Text("n/a"), pegRatio |-> Num(2)]),
   EmptyDict,
   ErrorText}

\* A symbol-keyed upstream mapping: AAPL's entry is one of `entries` or
\* missing, MSFT's is `other` or missing.
EntryMaps(entries, other) ==
  {<<>>, [t \in {"MSFT"} |-> other]}
    \cup {[t \in {"AAPL"} |-> e] : e \in entries}
    \cup {[t \in {"AAPL", "MSFT"} |-> IF t = "AAPL" THEN e ELSE other] : e \in entries}

InitAssemble ==
  /\ \E rec_trend_df \in AsmTables,
        earnings_data \in EntryMaps(EarningsEntries, SampleEarnings),
        index_data \in EntryMaps(IndexEntries, SampleIndex),
        ticker \in {"AAPL", "MSFT"} :
       asmCall = [called |-> FALSE, rec_trend_df |-> rec_trend_df,
                  earnings_data |-> earnings_data, index_data |-> index_data,
                  ticker |-> ticker, out |-> <<>>]
  /\ ChunkIdle /\ RecIdle /\ FetchIdle /\ main = NotStarted /\ SinkFresh
  /\ TrendIdle /\ combineCall = NoCombine /\ db = EmptyDb /\ ingest = NotIngesting
  /\ savers = NoSavers /\ sinkCall = NoSinkCall /\ runAll = NotRunning

\* One pass of the per-ticker loop of fetch_analysis_data: results[ticker] is
\* written by the try's body or by its except branch.
AssembleAnalysis ==
  /\ ~asmCall.called
  /\ asmCall' = [asmCall EXCEPT
                   !.called = TRUE,
                   !.out = AnalysisFor(asmCall.rec_trend_df, asmCall.earnings_data,
                                       asmCall.index_data, asmCall.ticker, FetchTime)]
  /\ UNCHANGED <<chunkCall, recCall, fetchCall, main, doc, lastSave,
                 trendCall, combineCall, db, ingest, savers, sinkCall, runAll>>

NextAssemble == AssembleAnalysis

SpecAssemble == InitAssemble /\ [][NextAssemble]_vars

\* ------------------------------- combine_data_in_memory, called directly

\* The category mappings handed to combine_data_in_memory: any of the symbols
\* of SaveSymbols may be missing from any of them.
CategoryMaps == UNION {[K -> SlotValues] : K \in SUBSET SaveSymbols}

\* The analysis mapping: a symbol's value is the wrapper {'analysis': ...}.
AnalysisMaps ==
  UNION {[K -> {[analysis |-> Stamped(1)]}] : K \in SUBSET SaveSymbols}

InitCombine ==
  /\ \E live \in CategoryMaps, daily \in CategoryMaps, fundamentals \in CategoryMaps,
        analysis \in AnalysisMaps :
       combineCall = [calls |-> 0,
                      given |-> Inputs(live, daily, fundamentals, analysis),
                      live |-> live, daily |-> daily, fundamentals |-> fundamentals,
                      analysis |-> analysis, outs |-> <<>>]
  /\ ChunkIdle /\ RecIdle /\ FetchIdle /\ main = NotStarted /\ SinkFresh
  /\ TrendIdle /\ AsmIdle /\ db = EmptyDb /\ ingest = NotIngesting
  /\ savers = NoSavers /\ sinkCall = NoSinkCall /\ runAll = NotRunning

\* combine_data_in_memory(live, daily, fundamentals, analysis) on the mappings
\* as the calls so far left them; the set all_tickers is visited in any order.
CombineDataInMemory ==
  /\ combineCall.calls < MaxCombines
  /\ LET heap == Inputs(combineCall.live, combineCall.daily, combineCall.fundamentals,
                        combineCall.analysis)
     IN  \E order \in Orders(AllTickers(heap)) :
           LET r == CombineLoop(order, 1, heap, <<>>)
           IN  combineCall' = [combineCall EXCEPT
                                 !.calls = @ + 1,
                                 !.live = r.heap.live,
                                 !.daily = r.heap.daily,
                                 !.fundamentals = r.heap.fundamentals,
                                 !.analysis = r.heap.analysis,
                                 !.outs = Append(@, r.out)]
  /\ UNCHANGED <<chunkCall, recCall, fetchCall, main, doc, lastSave,
                 trendCall, asmCall, db, ingest, savers, sinkCall, runAll>>

NextCombine == CombineDataInMemory

SpecCombine == InitCombine /\ [][NextCombine]_vars

\* ------------------------------------------- db_ingest: the relational sink

\* The symbols db_ingest.main ingests (db_ingest.py lines 338-343 name 25; the
\* model keeps two, one group).
ingest_ticker_list == <<"AAPL", "MSFT">>

IngestGroups == chunk_tickers(ingest_ticker_list, FetchChunkSize)

\* The upstream responses the four fetches of one run of db_ingest.main can
\* meet (live, daily, fundamentals, analysis), with at most MaxFaults faults.
IngestResponses ==
  {r \in SimpleResponses(IngestGroups) \X SimpleResponses(IngestGroups)
          \X SimpleResponses(IngestGroups) \X AnalysisResponses(IngestGroups) :
     SimpleFaults(r[1]) + SimpleFaults(r[2]) + SimpleFaults(r[3])
       + AnalysisFaults(r[4]) <= MaxFaults}

\* main, lines 346-355: init_db, then the four fetches over ticker_list.  An
\* exception of a fetch leaves main before any row is stored; the locals
\* assigned before it hold the outputs of the fetches that returned.
IngestFetch ==
  /\ ingest.pc \in {"start", "done", "aborted"}
  /\ ingest.now < MaxRuns
  /\ \E r \in IngestResponses :
       LET ts == ingest.now + 1
           live == fetch_live_data(ingest_ticker_list, r[1], ts)
           daily == fetch_daily_data(ingest_ticker_list, r[2], ts)
           fundamental == fetch_fundamental_data(ingest_ticker_list, r[3], ts)
           analysis == fetch_analysis_data(ingest_ticker_list, r[4], ts)
           raisedIn == IF live.raised THEN "live"
                       ELSE IF daily.raised THEN "daily"
                       ELSE IF fundamental.raised THEN "fundamentals"
                       ELSE "none"
       IN  ingest' =
             IF raisedIn # "none"
             THEN [NotIngesting EXCEPT
                     !.pc = "aborted", !.now = ts, !.raisedIn = raisedIn,
                     !.live_data = IF raisedIn = "live" THEN <<>> ELSE live.results,
                     !.daily_data = IF raisedIn = "fundamentals"
                                    THEN daily.results ELSE <<>>]
             ELSE [pc |-> "store", now |-> ts, raisedIn |-> "none",
                   todo |-> Range(ingest_ticker_list),
                   live_data |-> live.results, daily_data |-> daily.results,
                   fundamental_data |-> fundamental.results,
                   analysis_data |-> analysis.results]
  /\ UNCHANGED <<chunkCall, recCall, fetchCall, main, doc, lastSave,
                 trendCall, asmCall, combineCall, db, savers, sinkCall, runAll>>

\* main, lines 361-376: one pass of `for tkr in all_tickers`, the set visited
\* in any order.
IngestStore ==
  /\ ingest.pc = "store"
  /\ \E tkr \in ingest.todo :
       /\ db' = StoreTickerData(db, tkr, ingest.live_data, ingest.daily_data,
                                ingest.fundamental_data, ingest.analysis_data)
       /\ ingest' = [ingest EXCEPT !.todo = @ \ {tkr}]
  /\ UNCHANGED <<chunkCall, recCall, fetchCall, main, doc, lastSave,
                 trendCall, asmCall, combineCall, savers, sinkCall, runAll>>

\* main, lines 378-382: the loop is over; conn.close().
IngestClose ==
  /\ ingest.pc = "store" /\ ingest.todo = {}
  /\ ingest' = [ingest EXCEPT !.pc = "done"]
  /\ UNCHANGED <<chunkCall, recCall, fetchCall, main, doc, lastSave,
                 trendCall, asmCall, combineCall, db, savers, sinkCall, runAll>>

\* The symbols the CLI refreshes one at a time.
RefreshSymbols == {"AAPL", "TSLA"}

\* fetch_and_store_live_for_ticker(db_path, ticker), at any moment (the CLI's
\* scheduler calls it beside a running ingest): a row is stored when the fetch
\* returned a record for the ticker; an exception of the fetch leaves the
\* function before anything is stored.
FetchAndStoreLiveForTicker ==
  /\ ingest.now < MaxRuns
  /\ \E ticker \in RefreshSymbols :
       \E resp \in SimpleResponses(chunk_tickers(<<ticker>>, FetchChunkSize)) :
         LET ts == ingest.now + 1
         IN  /\ db' = fetch_and_store_live_for_ticker(db, ticker, resp, ts).db
             /\ ingest' = [ingest EXCEPT !.now = ts]
  /\ UNCHANGED <<chunkCall, recCall, fetchCall, main, doc, lastSave,
                 trendCall, asmCall, combineCall, savers, sinkCall, runAll>>

InitDb ==
  /\ db = EmptyDb /\ ingest = NotIngesting
  /\ ChunkIdle /\ RecIdle /\ FetchIdle /\ main = NotStarted /\ SinkFresh
  /\ TrendIdle /\ AsmIdle /\ combineCall = NoCombine
  /\ savers = NoSavers
  /\ sinkCall = NoSinkCall /\ runAll = NotRunning

NextDb ==
  \/ IngestFetch
  \/ IngestStore
  \/ IngestClose
  \/ FetchAndStoreLiveForTicker

SpecDb == InitDb /\ [][NextDb]_vars

\* ------------------------------- get_or_create_ticker_id, called directly

\* A new database, and none of the other functions running.
InitSink ==
  /\ db = EmptyDb /\ sinkCall = NoSinkCall /\ runAll = NotRunning
  /\ ingest = NotIngesting
  /\ ChunkIdle /\ RecIdle /\ FetchIdle /\ main = NotStarted /\ SinkFresh
  /\ TrendIdle /\ AsmIdle /\ combineCall = NoCombine
  /\ savers = NoSavers

\* ids with the id returned for symbol, when it is the first returned for it.
FirstId(ids, symbol, id) ==
  IF symbol \in DOMAIN ids THEN ids
  ELSE [t \in DOMAIN ids \cup {symbol} |-> IF t = symbol THEN id ELSE ids[t]]

\* get_or_create_ticker_id(conn, symbol), for any symbol.
GetOrCreateTickerId ==
  /\ sinkCall.calls < MaxTickerCalls
  /\ \E symbol \in Symbols :
       LET made == get_or_create_ticker_id(db, symbol)
       IN  /\ db' = made.db
           /\ sinkCall' = [NoSinkCall EXCEPT !.calls = sinkCall.calls + 1,
                                              !.op = "get_or_create_ticker_id",
                                              !.symbol = symbol, !.before = db,
                                              !.id = made.id,
                                              !.ids = FirstId(sinkCall.ids, symbol, made.id)]
  /\ UNCHANGED <<chunkCall, recCall, fetchCall, main, doc, lastSave,
                 trendCall, asmCall, combineCall, ingest, savers, runAll>>

NextTicker == GetOrCreateTickerId

SpecTicker == InitSink /\ [][NextTicker]_vars

\* ----------------------------------- store_analysis_data, called as main does

\* The analysis records fetch_analysis_data can hand over for one symbol: the
\* regular records of every combination of raising accessors, and the sentinel.
StoredAnalyses(ts) ==
  {fetch_analysis_data(<<"AAPL">>, r, ts).results["AAPL"] :
     r \in AnalysisResponses(chunk_tickers(<<"AAPL">>, FetchChunkSize))}

\* db_ingest.main, lines 363 and 375-376, for one symbol: its ticker id, then
\* store_analysis_data.  `before` is the database store_analysis_data finds.
StoreAnalysisData ==
  /\ sinkCall.calls < MaxAnalysisStores
  /\ \E tkr \in RefreshSymbols, data \in StoredAnalyses(sinkCall.calls + 1) :
       LET made == get_or_create_ticker_id(db, tkr)
       IN  /\ db' = store_analysis_data(made.db, made.id, data)
           /\ sinkCall' = [NoSinkCall EXCEPT !.calls = sinkCall.calls + 1,
                                              !.op = "store_analysis_data",
                                              !.symbol = tkr, !.data = data,
                                              !.before = made.db, !.id = made.id]
  /\ UNCHANGED <<chunkCall, recCall, fetchCall, main, doc, lastSave,
                 trendCall, asmCall, combineCall, ingest, savers, runAll>>

NextStoreAnalysis == StoreAnalysisData

SpecStoreAnalysis == InitSink /\ [][NextStoreAnalysis]_vars

\* ------------------- the refresh and the snapshot, on the database at DB_FILE

\* The upstream answering every symbol of every group with data.
AllData(groups) ==
  [g \in DOMAIN groups |->
     [raises |-> FALSE, data |-> [t \in Range(groups[g]) |-> "data"]]]

AllAnalysisData(groups) ==
  [g \in DOMAIN groups |->
     [rec_raises |-> FALSE, earn_raises |-> FALSE, idx_raises |-> FALSE,
      data |-> [t \in Range(groups[g]) |-> "data"]]]

\* The database an earlier run of db_ingest.main left, every category of both
\* its symbols stored (at time 0).
IngestedDb ==
  LET live == fetch_live_data(ingest_ticker_list, AllData(IngestGroups), 0).results
      daily == fetch_daily_data(ingest_ticker_list, AllData(IngestGroups), 0).results
      fundamental ==
        fetch_fundamental_data(ingest_ticker_list, AllData(IngestGroups), 0).results
      analysis ==
        fetch_analysis_data(ingest_ticker_list, AllAnalysisData(IngestGroups), 0).results
      first == StoreTickerData(EmptyDb, ingest_ticker_list[1],
                               live, daily, fundamental, analysis)
  IN  StoreTickerData(first, ingest_ticker_list[2], live, daily, fundamental, analysis)

\* The refresh finds a new database or the one an ingest left.
InitRefresh ==
  /\ db \in {EmptyDb, IngestedDb}
  /\ sinkCall = NoSinkCall /\ runAll = NotRunning /\ ingest = NotIngesting
  /\ ChunkIdle /\ RecIdle /\ FetchIdle /\ main = NotStarted /\ SinkFresh
  /\ TrendIdle /\ AsmIdle /\ combineCall = NoCombine
  /\ savers = NoSavers

\* fetch_and_store_live_for_ticker(DB_FILE, ticker): the database file is the
\* caller's; cli.py (line 11) imports DB_FILE from utils.py (lines 23-24), the
\* path run_all.py reads (line 39).  The record of the call keeps what the live
\* fetch returned for the ticker.
RefreshLive ==
  /\ sinkCall.calls < MaxRefreshes
  /\ \E ticker \in RefreshSymbols :
       \E resp \in SimpleResponses(chunk_tickers(<<ticker>>, FetchChunkSize)) :
         LET ts == sinkCall.calls + 1
             ticker_data == fetch_live_data(<<ticker>>, resp, ts)
             found == ~ticker_data.raised /\ ticker \in DOMAIN ticker_data.results
         IN  /\ db' = fetch_and_store_live_for_ticker(db, ticker, resp, ts).db
             /\ sinkCall' = [NoSinkCall EXCEPT !.calls = ts,
                                                !.op = "fetch_and_store_live_for_ticker",
                                                !.symbol = ticker, !.before = db,
                                                !.raised = ticker_data.raised,
                                                !.found = found,
                                                !.data = IF found
                                                         THEN ticker_data.results[ticker]
                                                         ELSE <<>>]
  /\ UNCHANGED <<chunkCall, recCall, fetchCall, main, doc, lastSave,
                 trendCall, asmCall, combineCall, ingest, savers, runAll>>

\* display_basic_data_for_all_tickers(), at any moment: it reads, and changes
\* nothing.
DisplayBasicData ==
  /\ sinkCall.op # "display_basic_data_for_all_tickers"
  /\ sinkCall' = [NoSinkCall EXCEPT !.calls = sinkCall.calls,
                                     !.op = "display_basic_data_for_all_tickers",
                                     !.before = db,
                                     !.rows = display_basic_data_for_all_tickers(db)]
  /\ UNCHANGED <<chunkCall, recCall, fetchCall, main, doc, lastSave,
                 trendCall, asmCall, combineCall, db, ingest, savers, runAll>>

NextRefresh ==
  \/ RefreshLive
  \/ DisplayBasicData

SpecRefresh == InitRefresh /\ [][NextRefresh]_vars

\* ------------------------------------------------------------- run_all.main

\* main's positions: "start"; inside show_spinner(run_full_ingest), "call"
\* (function_name is running), "finally" (it has returned or raised) and "join";
\* "schedule" once show_spinner has returned; "raised" when an exception has
\* left main.  The spinner thread is "running" until its loop ends ("stopped")
\* or an exception ends it ("crashed").
InitRunAll ==
  /\ runAll = NotRunning
  /\ db = EmptyDb /\ ingest = NotIngesting /\ sinkCall = NoSinkCall
  /\ ChunkIdle /\ RecIdle /\ FetchIdle /\ main = NotStarted /\ SinkFresh
  /\ TrendIdle /\ AsmIdle /\ combineCall = NoCombine
  /\ savers = NoSavers

\* show_spinner, lines 50 and 62-63: complete = False, and the spinner thread
\* is started; then line 67 calls function_name.
ShowSpinnerStart ==
  /\ runAll.pc = "start"
  /\ runAll' = [runAll EXCEPT !.pc = "call", !.complete = Bool(FALSE),
                              !.spinner = "running"]
  /\ UNCHANGED <<chunkCall, recCall, fetchCall, main, doc, lastSave, trendCall,
                 asmCall, combineCall, db, ingest, savers, sinkCall>>

\* spinner_task, lines 55-60: one evaluation of `while not complete[0]` and,
\* when it holds, one turn of the loop.  An exception ends the thread.
SpinnerTask ==
  /\ runAll.spinner = "running"
  /\ runAll' =
       IF SubscriptRaises(runAll.complete)
       THEN [runAll EXCEPT !.spinner = "crashed"]
       ELSE IF GetItem(runAll.complete)
       THEN [runAll EXCEPT !.spinner = "stopped"]
       ELSE [runAll EXCEPT !.i = (runAll.i + 1) % Len(spinner_chars)]
  /\ UNCHANGED <<chunkCall, recCall, fetchCall, main, doc, lastSave, trendCall,
                 asmCall, combineCall, db, ingest, savers, sinkCall>>

\* run_full_ingest, line 90: the subprocess runs db_ingest.main once.
SubprocessFetch == runAll.pc = "call" /\ ingest.pc = "start" /\ IngestFetch

SubprocessStore == runAll.pc = "call" /\ IngestStore

SubprocessClose == runAll.pc = "call" /\ IngestClose

\* run_full_ingest, lines 91-93: the subprocess has ended; its failure
\* (CalledProcessError) is caught and logged, and run_full_ingest returns.
RunFullIngestReturns ==
  /\ runAll.pc = "call" /\ ingest.pc \in {"done", "aborted"}
  /\ runAll' = [runAll EXCEPT !.pc = "finally"]
  /\ UNCHANGED <<chunkCall, recCall, fetchCall, main, doc, lastSave, trendCall,
                 asmCall, combineCall, db, ingest, savers, sinkCall>>

\* show_spinner's finally, line 72: complete[0] = True.  When the assignment
\* raises, the exception leaves show_spinner before the join (73) and leaves
\* main, which has no handler around line 227.
ShowSpinnerFinally ==
  /\ runAll.pc = "finally"
  /\ runAll' =
       IF SubscriptRaises(runAll.complete)
       THEN [runAll EXCEPT !.pc = "raised"]
       ELSE [runAll EXCEPT !.pc = "join", !.complete = SetItem(@, TRUE)]
  /\ UNCHANGED <<chunkCall, recCall, fetchCall, main, doc, lastSave, trendCall,
                 asmCall, combineCall, db, ingest, savers, sinkCall>>

NextRunAll ==
  \/ ShowSpinnerStart
  \/ SpinnerTask
  \/ SubprocessFetch
  \/ SubprocessStore
  \/ SubprocessClose
  \/ RunFullIngestReturns
  \/ ShowSpinnerFinally

\* Both threads and the subprocess are scheduled as long as they can step.
SpecRunAll == InitRunAll /\ [][NextRunAll]_vars /\ WF_vars(NextRunAll)

\* ==================================================================== claims

\* ceil(n / k)
CeilDiv(n, k) == (n + k - 1) \div k

RECURSIVE Concat(_)
Concat(seqs) == IF seqs = <<>> THEN <<>> ELSE Head(seqs) \o Concat(Tail(seqs))

\* ------------------------------------------------------------------------ C1
\* The category outputs of the finished run of main, by category; the analysis
\* output holds a symbol's analysis under the wrapper's key.
RunOutput(category) ==
  CASE category = "live" -> main.live_data
    [] category = "daily" -> main.daily_data
    [] category = "fundamentals" -> main.fundamental_data
    [] category = "analysis" -> main.analysis_data

\* The symbol and category had a record in the file the run's save_data found.
HeldBefore(t, category) ==
  /\ lastSave.before.state = "json"
  /\ t \in DOMAIN lastSave.before.content
  /\ category \in DOMAIN lastSave.before.content[t]
  /\ lastSave.before.content[t][category] # <<>>

\* C1: when a run of main has yielded no record for a category of a symbol and
\* the stored document held a record for that symbol and category, then after
\* the run's save_data (one the sink did not fail) that stored record is unchanged.
C1_AbsentCategoryKeepsStoredRecord ==
  (main.pc = "done" /\ lastSave.fault = "none") =>
    \A t \in Symbols, category \in Categories :
      (t \notin DOMAIN RunOutput(category) /\ HeldBefore(t, category)) =>
        /\ doc.state = "json"
        /\ t \in DOMAIN doc.content
        /\ category \in DOMAIN doc.content[t]
        /\ doc.content[t][category] = lastSave.before.content[t][category]

\* ------------------------------------------------------------------------ C2
\* A call of save_data that the sink did not fail, on no file or on a document.
SaveSucceeded ==
  /\ lastSave.calls > 0
  /\ lastSave.fault = "none"
  /\ lastSave.before.state # "malformed"

\* The slots of a symbol-keyed document: its (symbol, category) pairs.
Slots(content) == {<<t, c>> \in Symbols \X Categories : t \in DOMAIN content /\ c \in DOMAIN content[t]}

\* C2: save_data(data, filename) replaces exactly the (symbol, category) slots
\* that occur in data, and every other category of those symbols and every
\* other symbol of the stored document keeps its previous value; saving
\* {AAPL: {live: L1}} and then {AAPL: {daily: D1}} leaves
\* {AAPL: {live: L1, daily: D1}}.
C2_SaveReplacesExactlyGivenSlots ==
  SaveSucceeded =>
    LET before == lastSave.before.content
        data == lastSave.data
    IN  /\ doc.state = "json"
        /\ DOMAIN doc.content = DOMAIN before \cup DOMAIN data
        /\ Slots(doc.content) = Slots(before) \cup Slots(data)
        /\ \A s \in Slots(data) : doc.content[s[1]][s[2]] = data[s[1]][s[2]]
        /\ \A s \in Slots(before) \ Slots(data) :
             doc.content[s[1]][s[2]] = before[s[1]][s[2]]
        /\ (before = [t \in {"AAPL"} |-> [live |-> Stamped(1)]]
            /\ data = [t \in {"AAPL"} |-> [daily |-> Stamped(2)]])
             => doc.content = [t \in {"AAPL"} |-> [live |-> Stamped(1), daily |-> Stamped(2)]]

\* The second save of C2's example has happened.
C2_Witness ==
  /\ SaveSucceeded
  /\ lastSave.before = JsonFile([t \in {"AAPL"} |-> [live |-> Stamped(1)]])
  /\ lastSave.data = [t \in {"AAPL"} |-> [daily |-> Stamped(2)]]
  /\ doc = JsonFile([t \in {"AAPL"} |-> [live |-> Stamped(1), daily |-> Stamped(2)]])

\* ------------------------------------------------------------------------ C3
\* The groups of the directly called fetch, and the upstream requests made for
\* one group of its category.
CallGroups == chunk_tickers(fetchCall.tickers, FetchChunkSize)

RequestsPerGroup(category) ==
  IF category = "analysis" THEN Len(AnalysisAccessors) ELSE 1

\* The request (for analysis: one of the requests) of group g raised.
GroupRaised(g) ==
  IF fetchCall.category = "analysis"
  THEN fetchCall.resp[g].rec_raises \/ fetchCall.resp[g].earn_raises
         \/ fetchCall.resp[g].idx_raises
  ELSE fetchCall.resp[g].raises

\* The symbols whose entry, in a group whose request succeeded, is extracted.
Extracted ==
  {t \in Symbols :
     \E g \in DOMAIN CallGroups :
       /\ ~GroupRaised(g)
       /\ t \in Range(CallGroups[g])
       /\ fetchCall.resp[g].data[t] # "bad"}

\* C3: in each of the four fetch functions, when the upstream request of a
\* group raises, the function still requests every later group and returns,
\* with a record for every symbol extracted in a group that succeeded.
C3_FailedGroupIsIsolated ==
  (fetchCall.called /\ \E g \in DOMAIN CallGroups : GroupRaised(g)) =>
    /\ ~fetchCall.out.raised
    /\ fetchCall.out.requests
         = Len(CallGroups) * RequestsPerGroup(fetchCall.category)
    /\ Extracted \subseteq DOMAIN fetchCall.out.results

\* ------------------------------------------------------------------------ C4
\* C4: no exception leaves an entry point of the pipeline: whatever upstream
\* requests, entries and the sink do, a run of main is never ended by one.
C4_NoExceptionPropagates == main.pc # "aborted"

\* ------------------------------------------------------------------------ C5
\* C5: in a run of main over [AAPL, MSFT, GOOGL] whose daily request raises for
\* the group (its only fault), the run is not aborted: it goes on to the
\* fundamentals and analysis fetches, combine_data_in_memory and save_data.
C5_DailyFailureDoesNotAbort ==
  (main.raisedIn = "daily" /\ main.faults = 1) =>
    main.pc \in {"fetch_fundamental", "fetch_analysis", "combine", "save", "done"}

\* ------------------------------------------------------------------------ C6
\* The positions of the call's list, their groups, and what extraction met there.
Positions == DOMAIN fetchCall.tickers

GroupOf(i) == ((i - 1) \div FetchChunkSize) + 1

KindAt(i) == fetchCall.resp[GroupOf(i)].data[fetchCall.tickers[i]]

\* The last position of symbol t at which extraction did not raise.
LastGood(t) ==
  CHOOSE i \in Positions :
    /\ fetchCall.tickers[i] = t /\ KindAt(i) # "bad"
    /\ \A j \in Positions :
         (fetchCall.tickers[j] = t /\ KindAt(j) # "bad") => j <= i

\* The record extraction builds from the entry met at position i.
RecordAt(i) ==
  RecordFor(fetchCall.category,
            (IF KindAt(i) = "data" THEN SampleFor(fetchCall.category) ELSE EmptyDict),
            FetchTime)

\* C6: in fetch_live_data, fetch_daily_data and fetch_fundamental_data, when
\* every group's request succeeded, a symbol whose extraction raised (at each
\* place it occurs) is omitted from the output, and every other symbol of its
\* group and of the later groups has the record built from its own entry, as
\* if no symbol had failed.
C6_FailedSymbolOnlyOmitted ==
  (fetchCall.called /\ fetchCall.category \in SimpleCategories
     /\ \A g \in DOMAIN CallGroups : ~fetchCall.resp[g].raises) =>
    /\ ~fetchCall.out.raised
    /\ DOMAIN fetchCall.out.results
         = {fetchCall.tickers[i] : i \in {j \in Positions : KindAt(j) # "bad"}}
    /\ \A t \in DOMAIN fetchCall.out.results :
         fetchCall.out.results[t] = RecordAt(LastGood(t))

\* A first symbol's extraction raised in a group of three; the two after it and
\* the symbol of the next group have their records.
C6_Witness ==
  /\ fetchCall.called /\ fetchCall.category = "daily"
  /\ fetchCall.tickers = <<"AAPL", "MSFT", "GOOGL", "TSLA">>
  /\ ~fetchCall.resp[1].raises /\ ~fetchCall.resp[2].raises
  /\ fetchCall.resp[1].data["AAPL"] = "bad"
  /\ DOMAIN fetchCall.out.results = {"MSFT", "GOOGL", "TSLA"}

\* ------------------------------------------------------------------------ C7
\* C7: for a non-empty list and a chunk size k >= 1, chunk_tickers yields
\* groups of 1 to k symbols whose concatenation in yield order is the list;
\* every group but the last has exactly k symbols, so the boundaries are a
\* matter of positions only.
C7_ChunksPartitionInOrder ==
  (chunkCall.called /\ chunkCall.tickers # <<>>) =>
    LET groups == chunkCall.groups
        k == chunkCall.chunk_size
        n == Len(chunkCall.tickers)
    IN  /\ \A g \in DOMAIN groups : Len(groups[g]) >= 1 /\ Len(groups[g]) <= k
        /\ Concat(groups) = chunkCall.tickers
        /\ \A g \in DOMAIN groups : g < Len(groups) => Len(groups[g]) = k
        /\ Len(groups) = CeilDiv(n, k)
        /\ \A g \in DOMAIN groups : Len(groups[g]) = Min(k, n - (g - 1) * k)

\* Four symbols in chunks of three: a full group and a last group of one.
C7_Witness ==
  /\ chunkCall.called
  /\ chunkCall.tickers = <<"AAPL", "MSFT", "GOOGL", "TSLA">>
  /\ chunkCall.chunk_size = 3
  /\ chunkCall.groups = <<(<<"AAPL", "MSFT", "GOOGL">>), (<<"TSLA">>)>>

\* ------------------------------------------------------------------------ C8
\* C8: the mapping a fetch function returns has only symbols of its input list
\* as keys (so at most one entry per distinct symbol, duplicates or not), and on
\* an empty list it returns the empty mapping, with no upstream request and no
\* exception.
C8_OutputKeysAreInputSymbols ==
  fetchCall.called =>
    /\ ~fetchCall.out.raised =>
         /\ DOMAIN fetchCall.out.results \subseteq Range(fetchCall.tickers)
         /\ Cardinality(DOMAIN fetchCall.out.results)
              <= Cardinality(Range(fetchCall.tickers))
    /\ fetchCall.tickers = <<>> =>
         /\ ~fetchCall.out.raised
         /\ fetchCall.out.results = <<>>
         /\ fetchCall.out.requests = 0

\* A fetch of the empty list has returned.
C8_WitnessEmpty ==
  fetchCall.called /\ fetchCall.tickers = <<>> /\ fetchCall.category = "analysis"

\* A fetch of a list with a duplicate has returned one entry per distinct symbol.
C8_Witness ==
  /\ fetchCall.called /\ ~fetchCall.out.raised
  /\ fetchCall.tickers = <<"AAPL", "MSFT", "AAPL", "MSFT">>
  /\ DOMAIN fetchCall.out.results = {"AAPL", "MSFT"}

FirstRaising ==
  IF \E g \in DOMAIN CallGroups : fetchCall.resp[g].raises
  THEN CHOOSE g \in DOMAIN CallGroups :
         fetchCall.resp[g].raises /\ \A h \in 1..(g - 1) : ~fetchCall.resp[h].raises
  ELSE 0

C10_StableArgmaxLabel ==
  (recCall.called /\ recCall.row.isdict) =>
    LET count(i) == IF RecKeys[i] \in DOMAIN recCall.row.counts
                    THEN recCall.row.counts[RecKeys[i]] ELSE 0
    IN  /\ \E k \in DOMAIN RecKeys :
             /\ recCall.label = label_map[RecKeys[k]]
             /\ \A j \in DOMAIN RecKeys : count(j) <= count(k)
             /\ \A j \in 1..(k - 1) : count(j) < count(k)
        /\ recCall.row.counts = Counts(2, 2, 0, 0, 0) => recCall.label = "Strong Buy"

\* The tie of C10's example has been interpreted.
C10_Witness ==
  /\ recCall.called
  /\ recCall.row = DictRow(Counts(2, 2, 0, 0, 0))
  /\ recCall.label = "Strong Buy"

\* ----------------------------------------------------------------------- C11
\* The rows of the call's symbol, and the row the recommendation is due from:
\* the first with period "0m", else the first row.
TrendCallRows == trendCall.df[trendCall.ticker_sym]

DueRow ==
  LET current == {i \in DOMAIN TrendCallRows : TrendCallRows[i].period = "0m"}
  IN  IF current # {}
      THEN TrendCallRows[CHOOSE i \in current : \A j \in current : i <= j]
      ELSE TrendCallRows[1]

\* C11: process_recommendation_trend computes the recommendation from the
\* first row with period "0m" when the symbol has one, and from the first row
\* in row order (never "No Data") when it has rows but none with period "0m";
\* in both cases recommendation_trend is the symbol's row list in its order.
C11_RecommendationFromCurrentOrFirstRow ==
  (trendCall.called /\ trendCall.ticker_sym \in DOMAIN trendCall.df) =>
    /\ trendCall.out.recommendation_trend = TrendCallRows
    /\ trendCall.out.computed_recommendation = interpret_recommendation(DueRow)
    /\ trendCall.out.computed_recommendation # "No Data"
    /\ TrendCallRows = <<TrendRow("-1m", Counts(0, 0, MaxCount, 0, 0))>>
         => trendCall.out.computed_recommendation = "Hold"

\* A symbol with two "0m" rows of different labels after a "-1m" row: the
\* first "0m" row decides.
C11_Witness ==
  /\ trendCall.called /\ trendCall.ticker_sym = "AAPL"
  /\ trendCall.df = [t \in {"AAPL"} |->
                       <<TrendRow("-1m", Counts(MaxCount, 0, 0, 0, 0)),
                         TrendRow("0m", Counts(0, 0, MaxCount, 0, 0)),
                         TrendRow("0m", Counts(0, 1, 0, 0, 1))>>]
  /\ trendCall.out.computed_recommendation = "Hold"

\* A symbol whose only rows have period "-1m": the first row decides.
C11_WitnessFallback ==
  /\ trendCall.called /\ trendCall.ticker_sym = "AAPL"
  /\ trendCall.df = [t \in {"AAPL"} |->
                       <<TrendRow("-1m", Counts(0, 1, 0, 0, 1)),
                         TrendRow("-1m", Counts(0, 0, MaxCount, 0, 0))>>]
  /\ trendCall.out.computed_recommendation = "Buy"

\* ----------------------------------------------------------------------- C12
\* C12: when the table has no rows for the symbol (the table is empty, or the
\* symbol does not occur in it), process_recommendation_trend returns exactly
\* {recommendation_trend: [], computed_recommendation: "No Data"}.
C12_NoRowsGivesNoData ==
  (trendCall.called /\ trendCall.ticker_sym \notin DOMAIN trendCall.df) =>
    trendCall.out = [recommendation_trend |-> <<>>,
                     computed_recommendation |-> "No Data"]

\* A table with rows for MSFT only was asked for AAPL.
C12_Witness ==
  /\ trendCall.called /\ trendCall.ticker_sym = "AAPL"
  /\ DOMAIN trendCall.df = {"MSFT"}
  /\ trendCall.out.computed_recommendation = "No Data"

\* ----------------------------------------------------------------------- C13
\* The labels an analysis record may carry.
RecommendationLabels ==
  {"Strong Buy", "Buy", "Hold", "Sell", "Strong Sell", "No Data", "Unknown", "Error"}

\* The assembled record is the except branch's sentinel.
IsSentinel == asmCall.out.analysis.full_data = <<>>

\* C13: in every analysis record fetch_analysis_data writes, the
\* recommendation label (summary.recommendation and, in a full record,
\* full_data.computed_recommendation) is one of the five display labels or
\* "No Data", "Unknown", "Error", and never a raw upstream key.
C13_LabelIsCanonical ==
  asmCall.called =>
    /\ asmCall.out.analysis.summary.recommendation \in RecommendationLabels
    /\ asmCall.out.analysis.summary.recommendation \notin Range(RecKeys)
    /\ ~IsSentinel =>
         /\ asmCall.out.analysis.full_data.computed_recommendation
              \in RecommendationLabels
         /\ asmCall.out.analysis.full_data.computed_recommendation
              \notin Range(RecKeys)

\* A row whose greatest count is strongSell has been labelled "Strong Sell".
C13_Witness ==
  /\ asmCall.called /\ asmCall.ticker = "AAPL"
  /\ asmCall.rec_trend_df = [t \in {"AAPL"} |-> <<TrendRow("0m", Counts(0, 0, 0, 0, 1))>>]
  /\ ~IsSentinel
  /\ asmCall.out.analysis.full_data.computed_recommendation = "Strong Sell"

\* ----------------------------------------------------------------------- C14
\* The upstream entries of the assembled symbol ({} when it has none).
OwnEarnings ==
  IF asmCall.ticker \in DOMAIN asmCall.earnings_data
  THEN asmCall.earnings_data[asmCall.ticker] ELSE EmptyDict

OwnIndex ==
  IF asmCall.ticker \in DOMAIN asmCall.index_data
  THEN asmCall.index_data[asmCall.ticker] ELSE EmptyDict

\* items[key], or null when the key is absent.
ValueOrNull(items, key) == IF key \in DOMAIN items THEN items[key] ELSE NoneValue

\* The growth of the first "+1q" entry of the own earnings trend, else null.
DueGrowth ==
  LET list == IF "trend" \in DOMAIN OwnEarnings.items
              THEN OwnEarnings.items["trend"] ELSE <<>>
      next == {i \in DOMAIN list : list[i].period = "+1q"}
  IN  IF next = {} THEN NoneValue
      ELSE ValueOrNull(list[CHOOSE i \in next : \A j \in next : i <= j], "growth")

\* C14: for a symbol whose analysis is assembled without an exception,
\* summary.recommendation is full_data.computed_recommendation, pe_ratio and
\* peg_ratio are the index trend's peRatio and pegRatio unchanged (null when
\* absent), next_quarter_growth is the growth of the first "+1q" entry of the
\* earnings trend (null without a trend list or such an entry), and
\* full_data carries the upstream earnings and index entries unchanged.
C14_SummaryFromFullData ==
  (asmCall.called /\ ~IsSentinel) =>
    LET a == asmCall.out.analysis
    IN  /\ a.summary.recommendation = a.full_data.computed_recommendation
        /\ a.summary.pe_ratio = ValueOrNull(OwnIndex.items, "peRatio")
        /\ a.summary.peg_ratio = ValueOrNull(OwnIndex.items, "pegRatio")
        /\ a.summary.next_quarter_growth = DueGrowth
        /\ a.full_data.earnings_trend = OwnEarnings
        /\ a.full_data.index_trend = OwnIndex

\* A text ratio and the first of two "+1q" entries have reached the summary.
C14_Witness ==
  /\ asmCall.called /\ asmCall.ticker = "AAPL" /\ ~IsSentinel
  /\ "AAPL" \in DOMAIN asmCall.index_data
  /\ asmCall.index_data["AAPL"] = Dict([peRatio |-> Text("n/a"), pegRatio |-> Num(2)])
  /\ asmCall.out.analysis.summary.pe_ratio = Text("n/a")
  /\ asmCall.out.analysis.summary.next_quarter_growth = Num(5)

\* ----------------------------------------------------------------------- C15
\* The assembly of the symbol at position i raised: its index_trend entry is
\* the provider's error text (and the group's index_trend request returned it).
AssemblyFailedAt(i) ==
  KindAt(i) = "bad" /\ ~fetchCall.resp[GroupOf(i)].idx_raises

\* The last position of symbol t in the call's list: the pass that writes last.
LastAt(t) ==
  CHOOSE i \in Positions :
    fetchCall.tickers[i] = t /\ \A j \in Positions : fetchCall.tickers[j] = t => j <= i

\* The record the symbol at position i has when no symbol of its group fails:
\* its group's three responses with every entry good.
RecordIfNoneFailed(i) ==
  LET r == fetchCall.resp[GroupOf(i)]
      good == [t \in DOMAIN r.data |-> "data"]
  IN  AnalysisFor(IF r.rec_raises THEN EmptyFrame ELSE RecTable(good),
                  IF r.earn_raises THEN <<>> ELSE EarningsDict(good),
                  IF r.idx_raises THEN <<>> ELSE IndexDict(good),
                  fetchCall.tickers[i], FetchTime)

\* C15: when a step of assembling one symbol's analysis raises, that symbol's
\* record is exactly {full_data: {}, summary: {recommendation: "Error"},
\* timestamp}, and every other symbol of the group and of the later groups has
\* the record it has when no symbol fails.
C15_AssemblyFailureGivesSentinel ==
  (fetchCall.called /\ fetchCall.category = "analysis") =>
    /\ ~fetchCall.out.raised
    /\ \A t \in Range(fetchCall.tickers) :
         /\ t \in DOMAIN fetchCall.out.results
         /\ fetchCall.out.results[t] =
              IF AssemblyFailedAt(LastAt(t))
              THEN [analysis |-> [full_data |-> <<>>,
                                  summary |-> [recommendation |-> "Error"],
                                  timestamp |-> FetchTime]]
              ELSE RecordIfNoneFailed(LastAt(t))

\* The first symbol of a group of three failed; the two after it and the
\* symbol of the next group have full records.
C15_Witness ==
  /\ fetchCall.called /\ fetchCall.category = "analysis"
  /\ fetchCall.tickers = <<"AAPL", "MSFT", "GOOGL", "TSLA">>
  /\ AssemblyFailedAt(1)
  /\ fetchCall.out.results["AAPL"].analysis.summary.recommendation = "Error"
  /\ \A t \in {"MSFT", "GOOGL", "TSLA"} :
       fetchCall.out.results[t].analysis.summary.recommendation = "Buy"

\* ----------------------------------------------------------------------- C16
\* C16: when fetch_analysis_data returns (it always does), its output has an
\* analysis entry for every symbol of the input list, whatever requests or
\* symbols failed: a failed symbol carries the "Error" sentinel.
C16_AnalysisEntryForEverySymbol ==
  (fetchCall.called /\ fetchCall.category = "analysis") =>
    /\ ~fetchCall.out.raised
    /\ DOMAIN fetchCall.out.results = Range(fetchCall.tickers)
    /\ \A t \in DOMAIN fetchCall.out.results :
         /\ DOMAIN fetchCall.out.results[t] = {"analysis"}
         /\ \A i \in Positions :
              (fetchCall.tickers[i] = t /\ i = LastAt(t) /\ AssemblyFailedAt(i))
                => fetchCall.out.results[t].analysis.summary.recommendation = "Error"

\* Two requests of the first group raised and a symbol of the second group
\* failed: all four symbols have an entry.
C16_Witness ==
  /\ fetchCall.called /\ fetchCall.category = "analysis"
  /\ fetchCall.tickers = <<"AAPL", "MSFT", "GOOGL", "TSLA">>
  /\ fetchCall.resp[1].rec_raises /\ fetchCall.resp[1].earn_raises
  /\ AssemblyFailedAt(4)
  /\ DOMAIN fetchCall.out.results = {"AAPL", "MSFT", "GOOGL", "TSLA"}
  /\ fetchCall.out.results["TSLA"].analysis.summary.recommendation = "Error"

\* ----------------------------------------------------------------------- C17
\* C17: the mapping combine_data_in_memory returns has as keys exactly the
\* union of the keys of its four inputs; each symbol's record has the keys
\* live, daily and fundamentals (the input record, or {} when the symbol is
\* missing from that input) plus the keys of the symbol's analysis wrapper
\* (the key analysis), these exactly when the symbol is in the analysis input.
C17_CombinedKeysAndSlots ==
  \A k \in DOMAIN combineCall.outs :
    LET in == combineCall.given
        out == combineCall.outs[k]
    IN  /\ DOMAIN out = DOMAIN in.live \cup DOMAIN in.daily
                          \cup DOMAIN in.fundamentals \cup DOMAIN in.analysis
        /\ \A t \in DOMAIN out :
             /\ DOMAIN out[t] = {"live", "daily", "fundamentals"}
                                 \cup (IF t \in DOMAIN in.analysis THEN {"analysis"} ELSE {})
             /\ out[t].live = (IF t \in DOMAIN in.live THEN in.live[t] ELSE <<>>)
             /\ out[t].daily = (IF t \in DOMAIN in.daily THEN in.daily[t] ELSE <<>>)
             /\ out[t].fundamentals
                  = (IF t \in DOMAIN in.fundamentals THEN in.fundamentals[t] ELSE <<>>)
             /\ t \in DOMAIN in.analysis => out[t].analysis = in.analysis[t].analysis

\* AAPL is in the live and analysis inputs only, MSFT in the daily input only.
C17_Witness ==
  /\ combineCall.calls > 0
  /\ DOMAIN combineCall.given.live = {"AAPL"}
  /\ DOMAIN combineCall.given.daily = {"MSFT"}
  /\ DOMAIN combineCall.given.fundamentals = {}
  /\ DOMAIN combineCall.given.analysis = {"AAPL"}
  /\ DOMAIN combineCall.outs[1] = {"AAPL", "MSFT"}
  /\ DOMAIN combineCall.outs[1]["AAPL"] = {"live", "daily", "fundamentals", "analysis"}
  /\ combineCall.outs[1]["MSFT"].live = <<>>

\* ----------------------------------------------------------------------- C18
\* The four inputs with every symbol but t removed.
OnlySymbol(in, t) ==
  LET only(mapping) == [x \in DOMAIN mapping \cap {t} |-> mapping[x]]
  IN  Inputs(only(in.live), only(in.daily), only(in.fundamentals), only(in.analysis))

\* C18: combine_data_in_memory is deterministic and without hidden state:
\* calls on the same four mappings give equal outputs whatever the iteration
\* order, a symbol's record is the one it has when it is the only symbol, the
\* four inputs are not modified, and each category slot is the input record
\* itself, timestamp included.
C18_CombineIsPureAndLocal ==
  LET in == combineCall.given
  IN  /\ \A j, k \in DOMAIN combineCall.outs : combineCall.outs[j] = combineCall.outs[k]
      /\ \A k \in DOMAIN combineCall.outs :
           /\ combineCall.outs[k]
                = combine_data_in_memory(in.live, in.daily, in.fundamentals, in.analysis)
           /\ \A t \in DOMAIN combineCall.outs[k] :
                /\ \A o \in Orders(AllTickers(OnlySymbol(in, t))) :
                     combineCall.outs[k][t] = CombineLoop(o, 1, OnlySymbol(in, t), <<>>).out[t]
                /\ t \in DOMAIN in.live
                     => combineCall.outs[k][t].live.timestamp = in.live[t].timestamp
                /\ t \in DOMAIN in.daily
                     => combineCall.outs[k][t].daily.timestamp = in.daily[t].timestamp
                /\ t \in DOMAIN in.fundamentals
                     => combineCall.outs[k][t].fundamentals.timestamp
                          = in.fundamentals[t].timestamp
      /\ combineCall.calls > 0 =>
           Inputs(combineCall.live, combineCall.daily, combineCall.fundamentals,
                  combineCall.analysis) = in

\* Two calls on mappings with both symbols, only one of them with an analysis.
C18_Witness ==
  /\ combineCall.calls = MaxCombines
  /\ DOMAIN combineCall.given.live = {"AAPL", "MSFT"}
  /\ DOMAIN combineCall.given.analysis = {"MSFT"}
  /\ combineCall.given.live["AAPL"] = Stamped(2)
  /\ combineCall.outs[1] = combineCall.outs[2]
  /\ combineCall.outs[2]["AAPL"].live = Stamped(2)

\* ----------------------------------------------------------------------- C19
\* The last save_data failed: the existing file could not be read or parsed,
\* or the file could not be opened for writing, or the dump failed part-way.
SaveFailed ==
  /\ lastSave.calls > 0
  /\ \/ lastSave.before.state = "malformed"
     \/ lastSave.before.state = "json" /\ lastSave.fault = "read"
     \/ lastSave.fault \in {"open", "dump"}

\* C19: when save_data fails at any step, it returns without raising and the
\* stored document is the same as before the call: the run's data is not
\* written and what was stored is neither corrupted nor lost.
C19_FailedSaveLeavesDocument ==
  SaveFailed => doc = lastSave.before

\* ----------------------------------------------------------------------- C20
\* The tables of the claim (every table but Ticker).
DataTables == Tables \ {"Ticker"}

\* Every row of the table before the step is at its place, unchanged, after it.
RowsKept(table) ==
  /\ Len(db'[table]) >= Len(db[table])
  /\ \A i \in DOMAIN db[table] : db'[table][i] = db[table][i]

\* C20: the relational sink is append-only: no operation of db_ingest updates
\* or deletes a row of LiveData, DailyData, Fundamentals, Analysis,
\* RecommendationTrend, EarningsTrend or IndexTrend; every row inserted earlier
\* stays with its values and no table's row count decreases.
C20_RelationalSinkAppendOnly ==
  [][\A table \in DataTables : RowsKept(table)]_vars

\* Two ingestion runs have stored a live row each for the same ticker, and the
\* row of the first run is still there beside the second's.
C20_Witness ==
  /\ Len(db["LiveData"]) >= 2
  /\ \E i, j \in DOMAIN db["LiveData"] :
       /\ i < j
       /\ db["LiveData"][i].ticker_id = db["LiveData"][j].ticker_id
       /\ db["LiveData"][i].timestamp < db["LiveData"][j].timestamp
  /\ Len(db["Analysis"]) >= 2
  /\ Len(db["RecommendationTrend"]) >= 2

\* ------------------------------------------------------------------------ C21

\* Both processes have left save_data.
BothSaversReturned == \A p \in Savers : savers[p].pc \in {"done", "failed"}

\* Claim C21: when two save_data calls on the same file interleave, the final
\* document holds the category updates of both: every slot one of the calls
\* was given is in the document with a value one of the calls gave for it, so
\* no interleaving loses a category a call wrote.
C21_InterleavedSavesKeepBoth ==
  (savers # NoSavers /\ BothSaversReturned) =>
    /\ doc.state = "json"
    /\ \A p \in Savers : \A t \in DOMAIN savers[p].data :
         \A c \in DOMAIN savers[p].data[t] :
           /\ t \in DOMAIN doc.content
           /\ c \in DOMAIN doc.content[t]
           /\ \E q \in Savers :
                /\ t \in DOMAIN savers[q].data
                /\ c \in DOMAIN savers[q].data[t]
                /\ doc.content[t][c] = savers[q].data[t][c]

\* ------------------------------------------------------------------------ C22

\* Claim C22: after any sequence of get_or_create_ticker_id calls the Ticker
\* table holds at most one row per symbol; a call for a symbol already present
\* inserts no row and returns the id the first call for that symbol returned,
\* and calls for different symbols return different ids.
C22_OneTickerRowPerSymbol ==
  /\ \A i, j \in DOMAIN db["Ticker"] :
       db["Ticker"][i].symbol = db["Ticker"][j].symbol => i = j
  /\ sinkCall.op = "get_or_create_ticker_id" =>
       /\ TickerRows(sinkCall.before, sinkCall.symbol) # {} => db = sinkCall.before
       /\ sinkCall.id = sinkCall.ids[sinkCall.symbol]
       /\ \A t, u \in DOMAIN sinkCall.ids :
            t # u => sinkCall.ids[t] # sinkCall.ids[u]

\* A call for a symbol that is already present, in a table of several symbols.
C22_Witness ==
  /\ sinkCall.op = "get_or_create_ticker_id"
  /\ TickerRows(sinkCall.before, sinkCall.symbol) # {}
  /\ Len(db["Ticker"]) >= 2
  /\ sinkCall.id # Len(db["Ticker"])

\* ------------------------------------------------------------------------ C23

\* The rows a call added to a table: those after the rows it found.
Added(table) ==
  SubSeq(db[table], Len(sinkCall.before[table]) + 1, Len(db[table]))

\* The record handed to the call, read as the caller wrote it.
GivenFullData == sinkCall.data.analysis.full_data

GivenRecommendationRows ==
  IF "recommendation_trend" \in DOMAIN GivenFullData
  THEN Len(GivenFullData.recommendation_trend) ELSE 0

GivenEarningsEntries ==
  IF "earnings_trend" \in DOMAIN GivenFullData
     /\ "trend" \in DOMAIN GivenFullData.earnings_trend.items
  THEN Len(GivenFullData.earnings_trend.items.trend) ELSE 0

GivenIndexIsEmpty ==
  "index_trend" \in DOMAIN GivenFullData => GivenFullData.index_trend.items = <<>>

\* The record is the sentinel fetch_analysis_data writes for a failed symbol.
GivenIsSentinel == sinkCall.data.analysis.summary.recommendation = "Error"

ChildTables == {"RecommendationTrend", "EarningsTrend", "IndexTrend"}

\* Claim C23: each store_analysis_data call inserts exactly one Analysis row,
\* and every RecommendationTrend, EarningsTrend and IndexTrend row it inserts
\* carries the id of that new row; it inserts one RecommendationTrend row per
\* row of recommendation_trend, one EarningsTrend row per entry of the earnings
\* trend list, and one IndexTrend row only when index_trend is non-empty, so an
\* "Error" sentinel record yields an Analysis row with no child rows.
C23_AnalysisRowOwnsItsChildren ==
  sinkCall.op = "store_analysis_data" =>
    /\ \A table \in Tables :
         SubSeq(db[table], 1, Len(sinkCall.before[table])) = sinkCall.before[table]
    /\ Len(Added("Analysis")) = 1
    /\ \A i \in DOMAIN sinkCall.before["Analysis"] :
         sinkCall.before["Analysis"][i].id # Added("Analysis")[1].id
    /\ Added("Analysis")[1].ticker_id = sinkCall.id
    /\ \A table \in ChildTables : \A i \in DOMAIN Added(table) :
         Added(table)[i].analysis_id = Added("Analysis")[1].id
    /\ Len(Added("RecommendationTrend")) = GivenRecommendationRows
    /\ Len(Added("EarningsTrend")) = GivenEarningsEntries
    /\ Len(Added("IndexTrend")) = IF GivenIndexIsEmpty THEN 0 ELSE 1
    /\ GivenIsSentinel =>
         \A table \in ChildTables : Added(table) = <<>>

\* A record with rows, entries and an index stored for a ticker whose id is not
\* the new Analysis id, beside the rows of an earlier call.
C23_Witness ==
  /\ sinkCall.op = "store_analysis_data"
  /\ Len(sinkCall.before["RecommendationTrend"]) >= 1
  /\ Len(Added("RecommendationTrend")) >= 2
  /\ Len(Added("EarningsTrend")) >= 2
  /\ Len(Added("IndexTrend")) = 1
  /\ Added("Analysis")[1].id # sinkCall.id

\* The sentinel stored: an Analysis row and no child row.
C23_WitnessSentinel ==
  /\ sinkCall.op = "store_analysis_data"
  /\ GivenIsSentinel
  /\ Len(Added("Analysis")) = 1
  /\ Added("Analysis")[1].computed_recommendation = "Error"

\* ------------------------------------------------------------------------ C24

\* The ids the Ticker table gives the symbol of the call.
OwnTickerIds(d) == {d["Ticker"][i].id : i \in TickerRows(d, sinkCall.symbol)}

\* Claim C24: fetch_and_store_live_for_ticker is a live-only cycle for one
\* symbol.  When the live fetch returns a record for the symbol, exactly one
\* LiveData row is inserted for it, holding that record, and the Ticker row is
\* created if it was missing; when the fetch returns no record, no LiveData row
\* and no Ticker row is inserted.  In both cases DailyData, Fundamentals,
\* Analysis and its child tables, and the rows of all other symbols, are left
\* as they were.
C24_RefreshIsLiveOnly ==
  sinkCall.op = "fetch_and_store_live_for_ticker" =>
    LET before == sinkCall.before
        had == TickerRows(before, sinkCall.symbol) # {}
    IN  /\ \A table \in Tables \ {"Ticker", "LiveData"} : db[table] = before[table]
        /\ \A table \in {"Ticker", "LiveData"} :
             /\ SubSeq(db[table], 1, Len(before[table])) = before[table]
             /\ \A i \in DOMAIN Added(table) :
                  IF table = "Ticker" THEN Added(table)[i].symbol = sinkCall.symbol
                  ELSE Added(table)[i].ticker_id \in OwnTickerIds(db)
        /\ sinkCall.found =>
             /\ Len(Added("LiveData")) = 1
             /\ Added("LiveData")[1].price = sinkCall.data.price
             /\ Added("LiveData")[1].timestamp = sinkCall.data.timestamp
             /\ Len(Added("Ticker")) = IF had THEN 0 ELSE 1
             /\ Cardinality(OwnTickerIds(db)) = 1
        /\ ~sinkCall.found =>
             /\ Added("LiveData") = <<>>
             /\ Added("Ticker") = <<>>

\* A refresh of a new symbol on the database an ingest left: the Ticker row is
\* created and one LiveData row stored beside the other symbols' rows.
C24_Witness ==
  /\ sinkCall.op = "fetch_and_store_live_for_ticker"
  /\ sinkCall.found
  /\ Len(Added("Ticker")) = 1
  /\ Len(sinkCall.before["LiveData"]) >= 2
  /\ Len(db["Analysis"]) >= 2

\* A refresh whose fetch returns no record for a symbol the database lacks.
C24_WitnessNoRecord ==
  /\ sinkCall.op = "fetch_and_store_live_for_ticker"
  /\ ~sinkCall.found /\ ~sinkCall.raised
  /\ TickerRows(db, sinkCall.symbol) = {}
  /\ Len(db["Analysis"]) >= 2

\* ------------------------------------------------------------------------ C25

\* The category tables, and the local of main that holds each one's fetch output.
CategoryTables == {"LiveData", "DailyData", "Fundamentals", "Analysis"}

FetchOutput(table) ==
  CASE table = "LiveData" -> ingest.live_data
    [] table = "DailyData" -> ingest.daily_data
    [] table = "Fundamentals" -> ingest.fundamental_data
    [] OTHER -> ingest.analysis_data

\* The timestamp of a symbol's record in a category's fetch output.
FetchedAt(table, tkr) ==
  IF table = "Analysis" THEN FetchOutput(table)[tkr].analysis.timestamp
  ELSE FetchOutput(table)[tkr].timestamp

\* The step is main's pass for tkr.
StoresTicker(tkr) ==
  /\ ingest.pc = "store" /\ tkr \in ingest.todo
  /\ ingest' = [ingest EXCEPT !.todo = @ \ {tkr}]

\* What the pass for tkr does to one category table.
RowIffFetched(table, tkr) ==
  LET n == Len(db[table])
  IN  /\ SubSeq(db'[table], 1, n) = db[table]
      /\ IF tkr \in DOMAIN FetchOutput(table)
         THEN /\ Len(db'[table]) = n + 1
              /\ db'[table][n + 1].ticker_id
                   \in {db'["Ticker"][i].id : i \in TickerRows(db', tkr)}
              /\ db'[table][n + 1].timestamp = FetchedAt(table, tkr)
         ELSE db'[table] = db[table]

\* The rows of a category's table that hold tkr's record of this run.
RowsOfRun(table, tkr) ==
  {i \in DOMAIN db[table] :
     /\ \E k \in TickerRows(db, tkr) : db["Ticker"][k].id = db[table][i].ticker_id
     /\ db[table][i].timestamp = FetchedAt(table, tkr)}

\* The run of main is over: it closed the database, or an exception left it.
RunEnded == ingest.pc \in {"done", "aborted"}

\* main's pass for a symbol inserts the row of each category that fetched it
\* and no other row.
PassStoresWhatWasFetched ==
  \A tkr \in Symbols :
    StoresTicker(tkr) => \A table \in CategoryTables : RowIffFetched(table, tkr)

\* Each record of a category's fetch output has its one row.
EachFetchedRecordHasItsRow ==
  \A table \in CategoryTables : \A tkr \in DOMAIN FetchOutput(table) :
    Cardinality(RowsOfRun(table, tkr)) = 1

\* Claim C25: in a run of db_ingest.main, for every symbol and every category a
\* row is inserted into the category's table exactly when the symbol is in that
\* category's fetch output; an absent symbol gets no row there (no zero-valued
\* or empty one), and a run inserts at most one row per symbol per category
\* table.  Step by step: a symbol's pass inserts the row of each category that
\* fetched it and no other.  At the run's end: each fetched record has exactly
\* one row.
C25_RowExactlyWhenFetched ==
  /\ [][PassStoresWhatWasFetched]_vars
  /\ [](RunEnded => EachFetchedRecordHasItsRow)

\* The same, for the runs that no exception leaves.
C25_HoldsWhenNoFetchRaises ==
  /\ [][PassStoresWhatWasFetched]_vars
  /\ [](ingest.pc = "done" => EachFetchedRecordHasItsRow)

\* ------------------------------------------------------------------------ C26

\* The LiveData rows of a symbol, and the one inserted last.
LiveRowsOf(symbol) ==
  SelectSeq(db["LiveData"],
            LAMBDA l : \E k \in TickerRows(db, symbol) : db["Ticker"][k].id = l.ticker_id)

NewestLiveRow(symbol) ==
  CHOOSE l \in Range(LiveRowsOf(symbol)) :
    \A other \in Range(LiveRowsOf(symbol)) : other.id <= l.id

\* The rows the snapshot shows for a symbol.
ShownFor(symbol) == SelectSeq(sinkCall.rows, LAMBDA row : row.symbol = symbol)

\* Claim C26: display_basic_data_for_all_tickers shows exactly one row per
\* symbol that has at least one LiveData row, and none for the others; the row
\* shown is the symbol's LiveData row with the greatest id, so after any
\* sequence of live inserts an older row of a symbol is never shown once a newer
\* one exists.
C26_SnapshotShowsNewestRow ==
  sinkCall.op = "display_basic_data_for_all_tickers" =>
    /\ db = sinkCall.before
    /\ \A i \in DOMAIN sinkCall.rows : sinkCall.rows[i].symbol \in Symbols
    /\ \A symbol \in Symbols :
         IF LiveRowsOf(symbol) = <<>> THEN ShownFor(symbol) = <<>>
         ELSE /\ Len(ShownFor(symbol)) = 1
              /\ ShownFor(symbol)[1].timestamp = NewestLiveRow(symbol).timestamp
              /\ ShownFor(symbol)[1].price = NewestLiveRow(symbol).price
              /\ ShownFor(symbol)[1].change = NewestLiveRow(symbol).change
              /\ ShownFor(symbol)[1].percent_change = NewestLiveRow(symbol).percent_change

\* A snapshot of several symbols, one of them with an older and a newer row.
C26_Witness ==
  /\ sinkCall.op = "display_basic_data_for_all_tickers"
  /\ Len(sinkCall.rows) >= 2
  /\ \E symbol \in Symbols :
       /\ Len(LiveRowsOf(symbol)) >= 2
       /\ LiveRowsOf(symbol)[1].timestamp # ShownFor(symbol)[1].timestamp


\* ------------------------------------------------------------------------ C27

\* Claim C27: in run_all.main, show_spinner(run_full_ingest) returns normally
\* once run_full_ingest has returned and the spinner thread has stopped, and
\* main goes on to schedule the recurring update: every run in which the full
\* ingest finishes eventually reaches the scheduling step.
C27_IngestFinishedLeadsToSchedule ==
  (runAll.pc = "finally") ~> (runAll.pc = "schedule")


\* ------------------------------------------------------------------------ C28

\* The record of a symbol none of whose fields came from upstream: 0 for every
\* numeric field, None for every text field.
DefaultRecord(category) ==
  CASE category = "live" ->
         [price |-> 0, change |-> 0, percent_change |-> 0, timestamp |-> FetchTime]
    [] category = "daily" ->
         [open |-> 0, previous_close |-> 0, day_high |-> 0, day_low |-> 0,
          volume |-> 0, market_cap |-> 0, trailing_pe |-> 0, forward_pe |-> 0,
          timestamp |-> FetchTime]
    [] OTHER ->
         [sector |-> "None", industry |-> "None", full_time_employees |-> 0,
          country |-> "None", website |-> "None", description |-> "None",
          timestamp |-> FetchTime]

\* Position i lies in a group that was requested and whose request succeeded,
\* its response has no entry for the symbol, and the symbol does not occur
\* again later in the list.
EntryMissingAt(i) ==
  /\ \A g \in 1..GroupOf(i) : ~fetchCall.resp[g].raises
  /\ KindAt(i) = "missing"
  /\ \A j \in Positions : j > i => fetchCall.tickers[j] # fetchCall.tickers[i]

\* No numeric field of a live or daily record is null.
NumericFieldsAreNumbers ==
  \A t \in DOMAIN fetchCall.out.results :
    LET record == fetchCall.out.results[t]
    IN  fetchCall.category \in {"live", "daily"} =>
          \A field \in DOMAIN record \ {"timestamp"} : record[field] \in Nat

\* Claim C28: when a group's upstream request succeeds but the response has no
\* entry for one symbol of the group, fetch_live_data and fetch_daily_data
\* still emit a record for that symbol in which every numeric field is 0 with a
\* fresh timestamp, and fetch_fundamental_data one with all text fields None
\* and full_time_employees 0: the symbol is present with defaulted values, not
\* omitted, and no numeric field of a live or daily record is ever null.
C28_MissingEntryGivesDefaults ==
  (fetchCall.called /\ fetchCall.category \in SimpleCategories) =>
    /\ NumericFieldsAreNumbers
    /\ \A i \in Positions :
         EntryMissingAt(i) =>
           /\ fetchCall.tickers[i] \in DOMAIN fetchCall.out.results
           /\ fetchCall.out.results[fetchCall.tickers[i]]
                = DefaultRecord(fetchCall.category)

\* ------------------------------------------------------------------------ C29

\* The analysis record of a symbol for which upstream gave nothing at all.
EmptyAnalysis ==
  [analysis |->
     [full_data |-> [recommendation_trend |-> <<>>,
                     computed_recommendation |-> "No Data",
                     earnings_trend |-> EmptyDict,
                     index_trend |-> EmptyDict],
      summary |-> [recommendation |-> "No Data", pe_ratio |-> NoneValue,
                   peg_ratio |-> NoneValue, next_quarter_growth |-> NoneValue],
      timestamp |-> FetchTime]]

\* The three requests of the group of position i.
RequestsAt(i) == fetchCall.resp[GroupOf(i)]

AllThreeRaisedAt(i) ==
  RequestsAt(i).rec_raises /\ RequestsAt(i).earn_raises /\ RequestsAt(i).idx_raises

\* Claim C29: if the three analysis requests of a group (recommendation_trend,
\* earnings_trend, index_trend) all raise, every symbol of the group still gets
\* a regular analysis record and not the "Error" sentinel: recommendation_trend
\* [], computed_recommendation and summary.recommendation "No Data",
\* earnings_trend and index_trend {}, and pe_ratio, peg_ratio and
\* next_quarter_growth null.  A request that raises does not suppress the data
\* of the other two: a symbol whose assembly does not fail carries what each
\* request that returned gave for it.
C29_RaisingRequestsGiveEmptyRecord ==
  (fetchCall.called /\ fetchCall.category = "analysis") =>
    \A t \in Range(fetchCall.tickers) :
      LET i == LastAt(t)
          full_data == fetchCall.out.results[t].analysis.full_data
      IN  /\ t \in DOMAIN fetchCall.out.results
          /\ AllThreeRaisedAt(i) => fetchCall.out.results[t] = EmptyAnalysis
          /\ ~AssemblyFailedAt(i) =>
                /\ full_data.recommendation_trend
                     = IF RequestsAt(i).rec_raises THEN <<>> ELSE SampleRows
                /\ full_data.earnings_trend
                     = IF RequestsAt(i).earn_raises THEN EmptyDict ELSE SampleEarnings
                /\ full_data.index_trend
                     = IF RequestsAt(i).idx_raises THEN EmptyDict ELSE SampleIndex

\* All three requests of the first group raised and only the recommendation
\* request of the second: the first group's symbols have the empty record, the
\* second group's symbol its earnings and index data.
C29_Witness ==
  /\ fetchCall.called /\ fetchCall.category = "analysis"
  /\ fetchCall.tickers = <<"AAPL", "MSFT", "GOOGL", "TSLA">>
  /\ AllThreeRaisedAt(1)
  /\ RequestsAt(4).rec_raises /\ ~RequestsAt(4).earn_raises /\ ~RequestsAt(4).idx_raises
  /\ ~AssemblyFailedAt(4)
  /\ \A t \in {"AAPL", "MSFT", "GOOGL"} : fetchCall.out.results[t] = EmptyAnalysis
  /\ fetchCall.out.results["TSLA"].analysis.summary.recommendation = "No Data"
  /\ fetchCall.out.results["TSLA"].analysis.summary.pe_ratio = Num(20)
  /\ fetchCall.out.results["TSLA"].analysis.summary.next_quarter_growth = Num(4)

\* ------------------------------------------------------------------------ C30

\* The five counts of a row are equal, a missing key counting as 0.
AllCountsEqual(row) ==
  \A k \in Range(RecKeys) : CountOf(row, k) = CountOf(row, RecKeys[1])

\* row_0m = {} (scrape.py line 262)
FallbackRow == [isdict |-> TRUE, counts |-> <<>>]

\* Claim C30: when the row process_recommendation_trend selects has its five
\* counts equal (all zero, or the empty fallback row without count keys), the
\* computed recommendation is "Strong Buy"; such a row never gives "No Data"
\* or "Unknown".  "Unknown" is returned only for a selected row that is no
\* mapping, so never for a row of the table.
C30_EqualCountsGiveStrongBuy ==
  /\ (trendCall.called /\ trendCall.ticker_sym \in DOMAIN trendCall.df) =>
       /\ DueRow.isdict
       /\ AllCountsEqual(DueRow) =>
            trendCall.out.computed_recommendation = "Strong Buy"
  /\ trendCall.called => trendCall.out.computed_recommendation # "Unknown"
  /\ AllCountsEqual(FallbackRow)
  /\ interpret_recommendation(FallbackRow) = "Strong Buy"

\* A "-1m" row with a clear label, then a "0m" row without a single vote: the
\* "0m" row is selected and gives "Strong Buy".
C30_Witness ==
  /\ trendCall.called /\ trendCall.ticker_sym = "AAPL"
  /\ trendCall.df = [t \in {"AAPL"} |->
                       <<TrendRow("-1m", Counts(0, 0, MaxCount, 0, 0)),
                         TrendRow("0m", Counts(0, 0, 0, 0, 0))>>]
  /\ trendCall.out.computed_recommendation = "Strong Buy"

\* The selected row has one vote for each of the five keys.
C30_WitnessOneEach ==
  /\ trendCall.called /\ trendCall.ticker_sym \in DOMAIN trendCall.df
  /\ DueRow.counts = Counts(1, 1, 1, 1, 1)
  /\ trendCall.out.computed_recommendation = "Strong Buy"

====
